---- MODULE Spec2Model ----
(***************************************************************************)
(* Temporal code motion (src/src/pass/tcm.rs) on the process IR of LLHD.   *)
(*                                                                         *)
(* A unit is a record                                                      *)
(*   blocks    layout order of the blocks (sequence of block ids)          *)
(*   insts     block id -> layout order of its instructions                *)
(*   dfg       instruction id -> InstData [op, args, bbs, imm, ty]         *)
(*   nextInst, nextBlock   the next ids the arenas hand out                *)
(*   panic     why an operation on the unit panicked, "" while none did    *)
(* A value is a negative number (a unit argument; all arguments of a       *)
(* process are signals) or the id of the instruction that produces it.     *)
(***************************************************************************)
EXTENDS Integers, Sequences, FiniteSets, TLC

(***************************************************************************)
(* Small helpers on sequences and sets.                                    *)
(***************************************************************************)
Range(s) == {s[k] : k \in DOMAIN s}

RECURSIVE SeqWithout(_, _)
SeqWithout(s, x) ==
    IF s = <<>> THEN <<>>
    ELSE IF Head(s) = x THEN SeqWithout(Tail(s), x)
    ELSE <<Head(s)>> \o SeqWithout(Tail(s), x)

IndexOf(s, x) == CHOOSE k \in DOMAIN s : s[k] = x /\ \A j \in 1..(k-1) : s[j] # x

MinOf(S) == CHOOSE x \in S : \A y \in S : x <= y
MaxOf(S) == CHOOSE x \in S : \A y \in S : y <= x

\* A set of ids as a sequence: ascending, or descending when rev is TRUE.  The
\* two orders stand for the unspecified iteration order of a HashSet/HashMap.
RECURSIVE SetToSeq(_, _)
SetToSeq(S, rev) ==
    IF S = {} THEN <<>>
    ELSE LET x == IF rev THEN MaxOf(S) ELSE MinOf(S)
         IN <<x>> \o SetToSeq(S \ {x}, rev)

(***************************************************************************)
(* Opcodes.                                                                *)
(***************************************************************************)
is_temporal(op) == op \in {"wait", "wait_time"}

is_terminator(op) == op \in {"halt", "ret", "ret_value", "br", "br_cond", "wait", "wait_time"}

(***************************************************************************)
(* Data-flow graph and layout.                                             *)
(***************************************************************************)
InstData(op, args, bbs, imm, ty) ==
    [op |-> op, args |-> args, bbs |-> bbs, imm |-> imm, ty |-> ty]

AllInsts(u) == UNION {Range(u.insts[bb]) : bb \in Range(u.blocks)}

inst_in_layout(u, inst) == inst \in AllInsts(u)

inst_block(u, inst) == CHOOSE bb \in Range(u.blocks) : inst \in Range(u.insts[bb])

terminator(u, bb) == u.insts[bb][Len(u.insts[bb])]

\* The instruction that produces a value, or 0 for a unit argument.
get_value_inst(v) == IF v > 0 THEN v ELSE 0

value_is_signal(u, v) == IF v < 0 THEN TRUE ELSE u.dfg[v].ty = "signal"

has_result(u, inst) == u.dfg[inst].ty # "void"

\* The instructions that use a value as an operand.
uses(u, v) == {i \in DOMAIN u.dfg : v \in Range(u.dfg[i].args)}

\* The first panic of an operation on the unit is kept.
panic(u, why) == IF u.panic = "" THEN [u EXCEPT !.panic = why] ELSE u

add_inst(u, data) ==
    [u EXCEPT !.dfg = (u.nextInst :> data) @@ @, !.nextInst = @ + 1]

dfg_remove_inst(u, inst) ==
    [u EXCEPT !.dfg = [i \in (DOMAIN @) \ {inst} |-> @[i]]]

layout_remove_inst(u, inst) ==
    IF ~inst_in_layout(u, inst) THEN panic(u, "inst not inserted")
    ELSE [u EXCEPT !.insts = [bb \in DOMAIN @ |-> SeqWithout(@[bb], inst)]]

append_inst(u, inst, bb) ==
    IF bb \notin Range(u.blocks) THEN panic(u, "block not inserted")
    ELSE [u EXCEPT !.insts[bb] = Append(@, inst)]

prepend_inst(u, inst, bb) ==
    IF bb \notin Range(u.blocks) THEN panic(u, "block not inserted")
    ELSE [u EXCEPT !.insts[bb] = <<inst>> \o @]

insert_inst_before(u, inst, other) ==
    IF ~inst_in_layout(u, other) THEN panic(u, "inst not inserted")
    ELSE LET bb == inst_block(u, other)
             k == IndexOf(u.insts[bb], other)
         IN [u EXCEPT !.insts[bb] =
                SubSeq(@, 1, k - 1) \o <<inst>> \o SubSeq(@, k, Len(@))]

insert_inst_after(u, inst, other) ==
    IF ~inst_in_layout(u, other) THEN panic(u, "inst not inserted")
    ELSE LET bb == inst_block(u, other)
             k == IndexOf(u.insts[bb], other)
         IN [u EXCEPT !.insts[bb] =
                SubSeq(@, 1, k) \o <<inst>> \o SubSeq(@, k + 1, Len(@))]

append_block(u, bb) ==
    [u EXCEPT !.blocks = Append(@, bb), !.insts = (bb :> <<>>) @@ @]

(***************************************************************************)
(* The builder of a unit with a control flow graph.  The insertion         *)
(* position is [kind, at]; build_inst leaves it as it is.                  *)
(***************************************************************************)
PosNone == [kind |-> "None", at |-> 0]
append_to(bb) == [kind |-> "Append", at |-> bb]
prepend_to(bb) == [kind |-> "Prepend", at |-> bb]
insert_after(inst) == [kind |-> "After", at |-> inst]
insert_before(inst) == [kind |-> "Before", at |-> inst]

\* build_inst of a builder that falls back to the end of the first block.
build_inst_lenient(u, pos, data) ==
    LET inst == u.nextInst
        u1 == add_inst(u, data)
    IN CASE pos.kind = "None" ->
              IF u.blocks = <<>> THEN u1 ELSE append_inst(u1, inst, u.blocks[1])
         [] pos.kind = "Append" -> append_inst(u1, inst, pos.at)
         [] pos.kind = "Prepend" -> prepend_inst(u1, inst, pos.at)
         [] pos.kind = "After" -> insert_inst_after(u1, inst, pos.at)
         [] pos.kind = "Before" -> insert_inst_before(u1, inst, pos.at)

\* The unit after building `data` at `pos`; the new instruction is u.nextInst.
build_inst(u, pos, data) ==
    LET inst == u.nextInst
        u1 == add_inst(u, data)
    IN CASE pos.kind = "None" -> panic(u1, "no block selected")
         [] pos.kind = "Append" -> append_inst(u1, inst, pos.at)
         [] pos.kind = "Prepend" -> prepend_inst(u1, inst, pos.at)
         [] pos.kind = "After" -> insert_inst_after(u1, inst, pos.at)
         [] pos.kind = "Before" -> insert_inst_before(u1, inst, pos.at)

remove_inst(u, inst) == layout_remove_inst(dfg_remove_inst(u, inst), inst)

\* A fresh block at the end of the layout; the new block is u.nextBlock.
block(u) == [append_block(u, u.nextBlock) EXCEPT !.nextBlock = @ + 1]

replace_block(data, from, to) ==
    [data EXCEPT !.bbs = [k \in DOMAIN @ |-> IF @[k] = from THEN to ELSE @[k]]]

(***************************************************************************)
(* Predecessor table: for each block the blocks whose terminator targets   *)
(* it, and its successors in the order of the terminator's targets.  The   *)
(* temporal table leaves out the edges of wait terminators, so that the    *)
(* blocks it connects execute within one instant of time (the probe of the *)
(* two-block process h: br t, t: prb; wait h is hoisted into h).           *)
(***************************************************************************)
PredecessorTable_succ(u, bb, temporal) ==
    LET t == u.dfg[terminator(u, bb)]
    IN IF temporal /\ is_temporal(t.op) THEN <<>> ELSE t.bbs

PredecessorTable_make(u, temporal) ==
    LET bbs == Range(u.blocks)
        succ == [bb \in bbs |-> PredecessorTable_succ(u, bb, temporal)]
    IN [succ |-> succ,
        pred |-> [bb \in bbs |-> {p \in bbs : bb \in Range(succ[p])}]]

PredecessorTable_new(u) == PredecessorTable_make(u, FALSE)

PredecessorTable_new_temporal(u) == PredecessorTable_make(u, TRUE)

(***************************************************************************)
(* Dominator tree over a predecessor table.  The roots are the entry block *)
(* and the blocks without predecessors; the post-order is that of a depth  *)
(* first search from the roots along the successors in terminator order.   *)
(* A block the search does not reach is dominated by itself only.          *)
(***************************************************************************)
entry(u) == u.blocks[1]

RECURSIVE dfs_visit(_, _, _), dfs_list(_, _, _)
dfs_visit(pt, bb, st) ==
    IF bb \in st.seen THEN st
    ELSE LET st1 == dfs_list(pt, pt.succ[bb], [st EXCEPT !.seen = @ \cup {bb}])
         IN [st1 EXCEPT !.order = Append(@, bb)]
dfs_list(pt, targets, st) ==
    IF targets = <<>> THEN st
    ELSE dfs_list(pt, Tail(targets), dfs_visit(pt, Head(targets), st))

DominatorTree_roots(u, pt) ==
    <<entry(u)>> \o SelectSeq(u.blocks, LAMBDA bb : bb # entry(u) /\ pt.pred[bb] = {})

compute_blocks_post_order(u, pt) ==
    dfs_list(pt, DominatorTree_roots(u, pt), [seen |-> {}, order |-> <<>>]).order

RECURSIVE DominatorTree_fix(_, _, _, _)
DominatorTree_fix(bbs, pt, roots, D) ==
    LET reach == DOMAIN D
        N == [bb \in reach |->
                IF bb \in roots THEN {bb}
                ELSE {bb} \cup {d \in reach : \A p \in pt.pred[bb] \cap reach : d \in D[p]}]
    IN IF N = D THEN D ELSE DominatorTree_fix(bbs, pt, roots, N)

DominatorTree_new(u, pt) ==
    LET po == compute_blocks_post_order(u, pt)
        reach == Range(po)
        roots == Range(DominatorTree_roots(u, pt))
        D == DominatorTree_fix(Range(u.blocks), pt, roots, [bb \in reach |-> reach])
    IN [post_order |-> po,
        doms |-> [bb \in Range(u.blocks) |-> IF bb \in reach THEN D[bb] ELSE {bb}]]

blocks_post_order(dt) == dt.post_order

\* Index of a block in the post-order (-1 for a block the search did not reach).
block_order(dt, bb) ==
    IF bb \in Range(dt.post_order) THEN IndexOf(dt.post_order, bb) - 1 ELSE 0 - 1

dominates(dt, a, b) == a \in dt.doms[b]

\* The immediate dominator; a root is its own dominator.
dominator(dt, bb) ==
    LET S == dt.doms[bb] \ {bb}
    IN IF S = {} THEN bb
       ELSE CHOOSE d \in S : \A e \in S : Cardinality(dt.doms[e]) <= Cardinality(dt.doms[d])

value_dominates_block(u, dt, v, bb) ==
    IF get_value_inst(v) = 0 THEN TRUE
    ELSE inst_in_layout(u, v) /\ dominates(dt, inst_block(u, v), bb)

(***************************************************************************)
(* TemporalRegionGraph::new.  The result is [ok, blocks, regions]; ok is   *)
(* FALSE when the construction panics on the lookup of a block that has no *)
(* region (blocks[&pred] of a predecessor the worklist never reached).     *)
(***************************************************************************)
RECURSIVE trg_push_new(_, _)
trg_push_new(todo, targets) ==
    IF targets = <<>> THEN todo
    ELSE trg_push_new(IF Head(targets) \in Range(todo) THEN todo
                      ELSE Append(todo, Head(targets)), Tail(targets))

\* The worklist roots: the entry block, then the targets of wait terminators.
RECURSIVE trg_roots(_, _, _)
trg_roots(u, k, todo) ==
    IF k > Len(u.blocks) THEN todo
    ELSE LET term == u.dfg[terminator(u, u.blocks[k])]
         IN trg_roots(u, k + 1,
                IF is_temporal(term.op) THEN trg_push_new(todo, term.bbs) ELSE todo)

\* One target of the terminator of bb (region tr) in the assignment loop.
trg_assign_target(st, bb, tr, target) ==
    IF target \in st.seen THEN st
    ELSE LET st1 == [st EXCEPT !.seen = @ \cup {target}, !.todo = Append(@, target)]
         IN IF target \in DOMAIN st.blocks
            THEN [st1 EXCEPT !.blocks = (target :> st.next_id) @@ @,
                             !.head_blocks = @ \cup {target},
                             !.tail_blocks = @ \cup {bb},
                             !.next_id = @ + 1]
            ELSE [st1 EXCEPT !.blocks = (target :> tr) @@ @]

RECURSIVE trg_assign_targets(_, _, _, _)
trg_assign_targets(st, bb, tr, targets) ==
    IF targets = <<>> THEN st
    ELSE trg_assign_targets(trg_assign_target(st, bb, tr, Head(targets)), bb, tr, Tail(targets))

RECURSIVE trg_assign(_, _)
trg_assign(u, st) ==
    IF st.todo = <<>> THEN st
    ELSE LET bb == Head(st.todo)
             st1 == [st EXCEPT !.todo = Tail(@)]
             term == u.dfg[terminator(u, bb)]
         IN IF is_temporal(term.op)
            THEN trg_assign(u, [st1 EXCEPT !.tail_blocks = @ \cup {bb}])
            ELSE trg_assign(u, trg_assign_targets(st1, bb, st.blocks[bb], term.bbs))

\* The data of region id, given the block map and the head/tail marks.
TemporalRegionData(u, pt, st, id) ==
    LET mine == {bb \in DOMAIN st.blocks : st.blocks[bb] = id}
    IN [id |-> id,
        blocks |-> mine,
        entry |-> st.blocks[entry(u)] = id,
        head_blocks |-> {bb \in mine : bb \in st.head_blocks
                            \/ \E p \in pt.pred[bb] : st.blocks[p] # id},
        tail_blocks |-> {bb \in mine : bb \in st.tail_blocks
                            \/ \E s \in Range(pt.succ[bb]) : st.blocks[s] # id},
        head_insts |-> {terminator(u, p) : p \in
                            {p \in Range(u.blocks) : \E bb \in mine :
                                bb \in Range(pt.succ[p]) /\ st.blocks[p] # id}},
        tail_insts |-> {terminator(u, bb) : bb \in
                            {bb \in mine : \E t \in Range(u.dfg[terminator(u, bb)].bbs) :
                                st.blocks[t] # id}}]

\* The roots all in one region.
trg_init_one(todo) ==
    [todo |-> todo, seen |-> Range(todo),
     blocks |-> [bb \in Range(todo) |-> 0],
     head_blocks |-> Range(todo), tail_blocks |-> {},
     next_id |-> Len(todo)]

trg_init(todo) ==
    [todo |-> todo, seen |-> Range(todo),
     blocks |-> [bb \in Range(todo) |-> IndexOf(todo, bb) - 1],
     head_blocks |-> Range(todo), tail_blocks |-> {},
     next_id |-> Len(todo)]

trg_regions(u, pt, st) ==
    IF \E bb \in DOMAIN st.blocks : ~(pt.pred[bb] \subseteq DOMAIN st.blocks)
    THEN [ok |-> FALSE, blocks |-> st.blocks, regions |-> <<>>]
    ELSE [ok |-> TRUE, blocks |-> st.blocks,
          regions |-> [id \in 0..(st.next_id - 1) |-> TemporalRegionData(u, pt, st, id)]]

TemporalRegionGraph_new(u) ==
    trg_regions(u, PredecessorTable_new(u),
                trg_assign(u, trg_init(trg_roots(u, 1, <<entry(u)>>))))

\* Index<Block>: the lookup panics for a block without a region.
trg_has(trg, bb) == bb \in DOMAIN trg.blocks

is_head(trg, bb) == bb \in trg.regions[trg.blocks[bb]].head_blocks

is_tail(trg, bb) == bb \in trg.regions[trg.blocks[bb]].tail_blocks

(***************************************************************************)
(* run_on_cfg, first step: hoist the probes of unit arguments into the     *)
(* head block of their region.  Each step yields [u, modified].            *)
(***************************************************************************)
InstsOfBlocks(u, bbs) == UNION {Range(u.insts[bb]) : bb \in bbs}

\* The hoist condition without the check of the uses.
hoist_dominates_block(u, temp_dt, head_bb, inst) ==
    dominates(temp_dt, head_bb, inst_block(u, inst))

\* The condition under which the hoist loop pushes inst onto `hoist`.
hoist_dominates(u, temp_dt, head_bb, inst) ==
    /\ dominates(temp_dt, head_bb, inst_block(u, inst))
    /\ \A user_inst \in uses(u, inst) :
          dominates(temp_dt, head_bb, inst_block(u, user_inst))

hoist_is_candidate(u, inst) ==
    /\ u.dfg[inst].op = "prb"
    /\ get_value_inst(u.dfg[inst].args[1]) = 0

\* The sorted `hoist` vector of a region.
hoist_list(u, temp_dt, tr) ==
    IF Cardinality(tr.head_blocks) # 1 THEN <<>>
    ELSE LET head_bb == CHOOSE bb \in tr.head_blocks : TRUE
         IN SetToSeq({inst \in InstsOfBlocks(u, tr.blocks) :
                        hoist_is_candidate(u, inst)
                        /\ hoist_dominates(u, temp_dt, head_bb, inst)}, FALSE)

RECURSIVE hoist_insts(_, _, _)
hoist_insts(u, hoist, head_bb) ==
    IF hoist = <<>> THEN u
    ELSE hoist_insts(prepend_inst(layout_remove_inst(u, Head(hoist)), Head(hoist), head_bb),
                     Tail(hoist), head_bb)

hoist_region(r, tr, hoist) ==
    IF hoist = <<>> THEN r
    ELSE [u |-> hoist_insts(r.u, hoist, CHOOSE bb \in tr.head_blocks : TRUE),
          modified |-> TRUE]

RECURSIVE hoist_regions(_, _, _, _)
hoist_regions(r, trg, temp_dt, id) ==
    IF id \notin DOMAIN trg.regions THEN r
    ELSE hoist_regions(hoist_region(r, trg.regions[id],
                                    hoist_list(r.u, temp_dt, trg.regions[id])),
                       trg, temp_dt, id + 1)

hoist_probes_in(u, trg, temp_dt) ==
    IF ~trg.ok THEN [u |-> panic(u, "block has no region"), modified |-> FALSE]
    ELSE hoist_regions([u |-> u, modified |-> FALSE], trg, temp_dt, 0)

hoist_probes(u) ==
    hoist_probes_in(u, TemporalRegionGraph_new(u),
                    DominatorTree_new(u, PredecessorTable_new_temporal(u)))

(***************************************************************************)
(* run_on_cfg, second step: fuse equivalent wait instructions.             *)
(***************************************************************************)
br(bb) == InstData("br", <<>>, <<bb>>, 0, "void")

RECURSIVE fuse_branches(_, _, _)
fuse_branches(u, insts, unified_bb) ==
    IF insts = <<>> THEN u
    ELSE fuse_branches(build_inst(u, insert_after(Head(insts)), br(unified_bb)),
                       Tail(insts), unified_bb)

RECURSIVE fuse_remove(_, _)
fuse_remove(u, insts) ==
    IF insts = <<>> THEN u ELSE fuse_remove(remove_inst(u, Head(insts)), Tail(insts))

\* One entry `insts` of the merge table with more than one instruction.
fuse_unify(u, insts, unified_bb) ==
    fuse_remove(append_inst(layout_remove_inst(u, insts[1]), insts[1], unified_bb),
                Tail(insts))

fuse_group(u, insts) ==
    fuse_unify(fuse_branches(block(u), insts, u.nextBlock), insts, u.nextBlock)

\* The merge table of a region: the tail instructions grouped by InstData.
fuse_merge(u, tr, rev) ==
    LET group(i) == {j \in tr.tail_insts : u.dfg[j] = u.dfg[i]}
        firsts == {i \in tr.tail_insts : i = MinOf(group(i))}
        keys == SetToSeq(firsts, rev)
    IN [k \in DOMAIN keys |-> SetToSeq(group(keys[k]), rev)]

RECURSIVE fuse_groups(_, _)
fuse_groups(r, merge) ==
    IF merge = <<>> THEN r
    ELSE IF Len(Head(merge)) <= 1 THEN fuse_groups(r, Tail(merge))
    ELSE fuse_groups([u |-> fuse_group(r.u, Head(merge)), modified |-> TRUE], Tail(merge))

RECURSIVE fuse_regions(_, _, _, _)
fuse_regions(r, trg, id, rev) ==
    IF id \notin DOMAIN trg.regions THEN r
    ELSE LET tr == trg.regions[id]
         IN IF Cardinality(tr.tail_insts) <= 1 THEN fuse_regions(r, trg, id + 1, rev)
            ELSE fuse_regions(fuse_groups(r, fuse_merge(r.u, tr, rev)), trg, id + 1, rev)

fuse_waits_in(u, trg, rev) ==
    IF ~trg.ok THEN [u |-> panic(u, "block has no region"), modified |-> FALSE]
    ELSE fuse_regions([u |-> u, modified |-> FALSE], trg, 0, rev)

fuse_waits(u, rev) == fuse_waits_in(u, TemporalRegionGraph_new(u), rev)

(***************************************************************************)
(* add_aux_blocks.                                                         *)
(***************************************************************************)
RECURSIVE aux_replace(_, _, _, _)
aux_replace(u, insts, bb, aux_bb) ==
    IF insts = <<>> THEN u
    ELSE aux_replace([u EXCEPT !.dfg[Head(insts)] = replace_block(@, bb, aux_bb)],
                     Tail(insts), bb, aux_bb)

\* An auxiliary block that is left empty.
aux_entry_empty(u, insts, bb) == aux_replace(block(u), insts, bb, u.nextBlock)

\* One entry of insts_by_region with at least two instructions.
aux_entry(u, insts, bb) ==
    aux_replace(build_inst(block(u), append_to(u.nextBlock), br(bb)), insts, bb, u.nextBlock)

\* insts_by_region of head block bb, as a sequence of instruction vectors.
aux_insts_by_region(u, pt, trg, bb, rev) ==
    LET tr == trg.blocks[bb]
        preds == {pred \in pt.pred[bb] : trg.blocks[pred] # tr}
        src_trs == SetToSeq({trg.blocks[pred] : pred \in preds}, rev)
    IN [k \in DOMAIN src_trs |->
            SetToSeq({terminator(u, pred) : pred \in
                        {p \in preds : trg.blocks[p] = src_trs[k]}}, rev)]

RECURSIVE aux_entries(_, _, _)
aux_entries(r, entries, bb) ==
    IF entries = <<>> THEN r
    ELSE IF Len(Head(entries)) < 2 THEN aux_entries(r, Tail(entries), bb)
    ELSE aux_entries([u |-> aux_entry(r.u, Head(entries), bb), modified |-> TRUE],
                     Tail(entries), bb)

RECURSIVE aux_heads(_, _, _, _, _)
aux_heads(r, pt, trg, head_bbs, rev) ==
    IF head_bbs = <<>> THEN r
    ELSE aux_heads(aux_entries(r, aux_insts_by_region(r.u, pt, trg, Head(head_bbs), rev),
                               Head(head_bbs)),
                   pt, trg, Tail(head_bbs), rev)

add_aux_blocks_in(u, pt, trg, rev) ==
    IF ~trg.ok \/ \E bb \in Range(u.blocks) : ~trg_has(trg, bb)
    THEN [u |-> panic(u, "block has no region"), modified |-> FALSE]
    ELSE aux_heads([u |-> u, modified |-> FALSE], pt, trg,
                   SelectSeq(u.blocks, LAMBDA bb : is_head(trg, bb)), rev)

add_aux_blocks(u, rev) ==
    add_aux_blocks_in(u, PredecessorTable_new(u), TemporalRegionGraph_new(u), rev)

(***************************************************************************)
(* push_drives: alias table and drive sequences.                           *)
(***************************************************************************)
is_drive(op) == op \in {"drv", "drv_cond"}

MapGet(m, k) == IF k \in DOMAIN m THEN m[k] ELSE k

RECURSIVE alias_args(_, _, _, _)
alias_args(u, aliases, value, args) ==
    IF args = <<>> THEN aliases
    ELSE IF ~value_is_signal(u, Head(args)) THEN alias_args(u, aliases, value, Tail(args))
    ELSE alias_args(u, (value :> MapGet(aliases, Head(args))) @@ aliases, value, Tail(args))

\* One instruction of the walk; st is [aliases, drv_seq, order].
alias_inst(u, st, inst) ==
    LET data == u.dfg[inst]
    IN IF is_drive(data.op)
       THEN LET signal == MapGet(st.aliases, data.args[1])
            IN IF signal \in DOMAIN st.drv_seq
               THEN [st EXCEPT !.drv_seq[signal] = Append(@, inst)]
               ELSE [st EXCEPT !.drv_seq = (signal :> <<inst>>) @@ @]
       ELSE IF has_result(u, inst) /\ value_is_signal(u, inst)
       THEN [st EXCEPT !.aliases = alias_args(u, @, inst, data.args)]
       ELSE st

RECURSIVE alias_insts(_, _, _)
alias_insts(u, st, insts) ==
    IF insts = <<>> THEN st
    ELSE alias_insts(u, alias_inst(u, st, Head(insts)), Tail(insts))

\* The blocks of the post-order from index k down to 1 (reverse post-order).
RECURSIVE alias_blocks(_, _, _, _)
alias_blocks(u, st, po, k) ==
    IF k = 0 THEN st
    ELSE alias_blocks(u, alias_insts(u, st, u.insts[po[k]]), po, k - 1)

drive_sequences(u, dt) ==
    alias_blocks(u, [aliases |-> <<>>, drv_seq |-> <<>>],
                 blocks_post_order(dt), Len(blocks_post_order(dt)))

(***************************************************************************)
(* push_drive.                                                             *)
(***************************************************************************)
const_int(imm) == InstData("const_int", <<>>, <<>>, imm, "value")
not_(x) == InstData("not", <<x>>, <<>>, 0, "value")
and_(x, y) == InstData("and", <<x, y>>, <<>>, 0, "value")
or_(x, y) == InstData("or", <<x, y>>, <<>>, 0, "value")
array(args) == InstData("array", args, <<>>, 0, "value")
mux(x, y) == InstData("mux", <<x, y>>, <<>>, 0, "value")
drv_cond(signal, value, delay, cond) ==
    InstData("drv_cond", <<signal, value, delay, cond>>, <<>>, 0, "void")

\* cond_pol: the position of src_finger among the targets of term, from 0;
\* -1 when it is none of them.
cond_position(term, src_finger) ==
    IF src_finger \in Range(term.bbs) THEN IndexOf(term.bbs, src_finger) - 1 ELSE 0 - 1

\* The polarity the wrong way round.
cond_polarity_first(cond_pol) == cond_pol = 0

\* The polarity recorded with the branch condition for position cond_pol.
cond_polarity(cond_pol) == cond_pol # 0

\* The dominator walk between src_finger and dst_finger.  w is
\* [ok, src, dst, conds, steps]; steps lists the steps of src_finger, each
\* with whether it recorded a condition; ok turns FALSE when the branch condition
\* does not dominate dst_bb.  Two different blocks of equal order are both
\* outside the post-order: the loop of the code does not end for them, and
\* the walk is given up here.
RECURSIVE drive_walk(_, _, _, _)
drive_walk(u, dt, dst_bb, w) ==
    IF ~w.ok \/ w.src = w.dst THEN w
    ELSE LET i1 == block_order(dt, w.src)
             i2 == block_order(dt, w.dst)
         IN IF i1 < i2
            THEN LET parent == dominator(dt, w.src)
                     term == u.dfg[terminator(u, parent)]
                 IN IF w.src = parent THEN w
                    ELSE IF term.op = "br_cond"
                    THEN LET cond_val == term.args[1]
                             cond_pol == cond_position(term, w.src)
                         IN IF ~value_dominates_block(u, dt, cond_val, dst_bb)
                            THEN [w EXCEPT !.ok = FALSE]
                            ELSE drive_walk(u, dt, dst_bb,
                                   [w EXCEPT !.src = parent,
                                      !.steps = Append(@, [finger |-> w.src, parent |-> parent,
                                                           recorded |-> cond_pol >= 0]),
                                      !.conds = IF cond_pol >= 0
                                                THEN Append(@, <<cond_val, cond_polarity(cond_pol)>>)
                                                ELSE @])
                    ELSE drive_walk(u, dt, dst_bb,
                           [w EXCEPT !.src = parent,
                              !.steps = Append(@, [finger |-> w.src, parent |-> parent,
                                                   recorded |-> FALSE])])
            ELSE IF i2 < i1
            THEN LET parent == dominator(dt, w.dst)
                 IN IF w.dst = parent THEN w
                    ELSE drive_walk(u, dt, dst_bb, [w EXCEPT !.dst = parent])
            ELSE w

\* The checks of push_drive for one tail block: [ok, dst, conds, steps].
walk_result(w, dst_bb) ==
    [ok |-> w.ok /\ w.src = w.dst, dst |-> dst_bb, conds |-> w.conds, steps |-> w.steps]

drive_check(u, dt, drive, src_bb, dst_bb) ==
    IF \E k \in DOMAIN u.dfg[drive].args :
          ~value_dominates_block(u, dt, u.dfg[drive].args[k], dst_bb)
    THEN [ok |-> FALSE, dst |-> dst_bb, conds |-> <<>>, steps |-> <<>>]
    ELSE walk_result(drive_walk(u, dt, dst_bb,
                        [ok |-> TRUE, src |-> src_bb, dst |-> dst_bb,
                         conds |-> <<>>, steps |-> <<>>]),
                     dst_bb)

\* The conjunction of the recorded conditions, from the last recorded to the
\* first; b is [u, cond].
\* The operand for a recorded condition: the value, or its negation.
drive_operand(b, pos, value, polarity) ==
    IF polarity THEN [u |-> b.u, v |-> value]
    ELSE [u |-> build_inst(b.u, pos, not_(value)), v |-> b.u.nextInst]

drive_and(x, pos, cond) ==
    [u |-> build_inst(x.u, pos, and_(cond, x.v)), cond |-> x.u.nextInst]

RECURSIVE drive_conds(_, _, _, _)
drive_conds(b, pos, conds, k) ==
    IF k = 0 THEN b
    ELSE drive_conds(drive_and(drive_operand(b, pos, conds[k][1], conds[k][2]), pos, b.cond),
                     pos, conds, k - 1)

\* The execution of one move: the new drive is built in dst_bb.
drive_first(u, pos) == [u |-> build_inst(u, pos, const_int(1)), cond |-> u.nextInst]

\* Add the drive condition, if any.
drive_own_cond(b, pos, data) ==
    IF data.op = "drv_cond" THEN drive_and([u |-> b.u, v |-> data.args[4]], pos, b.cond)
    ELSE b

\* Insert the new drive.
drive_insert(b, pos, data) ==
    build_inst(b.u, pos, drv_cond(data.args[1], data.args[2], data.args[3], b.cond))

drive_move_at(u, pos, data, conds) ==
    drive_insert(drive_own_cond(drive_conds(drive_first(u, pos), pos, conds, Len(conds)),
                                pos, data),
                 pos, data)

\* The execution of one move: the new drive is built in the tail block.
drive_move(u, drive, move) == drive_move_at(u, prepend_to(move.dst), u.dfg[drive], move.conds)

RECURSIVE drive_moves(_, _, _, _)
drive_moves_next(u1, drive, moves, built) ==
    drive_moves(u1, drive, moves, Append(built, u1.nextInst - 1))

drive_moves(u, drive, moves, built) ==
    IF moves = <<>> THEN [u |-> u, built |-> built]
    ELSE drive_moves_next(drive_move(u, drive, Head(moves)), drive, Tail(moves), built)

\* push_drive: [u, moved, rec]; rec is the record of what was done, with the
\* unit before and after the call.
push_drive_removed(u1, built, rec) ==
    [u |-> u1, moved |-> TRUE,
     rec |-> [rec EXCEPT !.built = built, !.moved = TRUE, !.after = u1]]

push_drive_moved(m, drive, rec) == push_drive_removed(remove_inst(m.u, drive), m.built, rec)

push_drive_checked(u, drive, checks, rec) ==
    IF \E k \in DOMAIN checks : ~checks[k].ok
    THEN [u |-> u, moved |-> FALSE, rec |-> [rec EXCEPT !.moves = checks]]
    ELSE push_drive_moved(drive_moves(u, drive, checks, <<>>), drive,
                          [rec EXCEPT !.moves = checks])

push_drive_to(u, drive, dt, src_bb, dsts, rec) ==
    push_drive_checked(u, drive,
        [k \in DOMAIN dsts |-> drive_check(u, dt, drive, src_bb, dsts[k])], rec)

push_drive(u, drive, dt, trg, rev) ==
    push_drive_to(u, drive, dt, inst_block(u, drive),
        SetToSeq(trg.regions[trg.blocks[inst_block(u, drive)]].tail_blocks, rev),
        [drive |-> drive, data |-> u.dfg[drive], src |-> inst_block(u, drive),
         tr |-> trg.blocks[inst_block(u, drive)],
         moves |-> <<>>, built |-> <<>>, moved |-> FALSE, before |-> u, after |-> u])

(***************************************************************************)
(* coalesce_drives.                                                        *)
(***************************************************************************)
\* drive_cond: [u, cond]; an unconditional drive builds the constant 1.
drive_cond(u, pos, inst) ==
    IF u.dfg[inst].op = "drv_cond"
    THEN [u |-> u, cond |-> u.dfg[inst].args[4]]
    ELSE [u |-> build_inst(u, pos, const_int(1)), cond |-> u.nextInst]

\* The drives of a delay group split into runs of drives to the same signal.
RECURSIVE coalesce_runs(_, _, _)
coalesce_runs(u, drives, runs) ==
    IF drives = <<>> THEN runs
    ELSE LET d == Head(drives)
             n == Len(runs)
         IN IF n > 0 /\ u.dfg[runs[n][1]].args[1] = u.dfg[d].args[1]
            THEN coalesce_runs(u, Tail(drives), [runs EXCEPT ![n] = Append(@, d)])
            ELSE coalesce_runs(u, Tail(drives), Append(runs, <<d>>))

\* One subsequent drive of a run; c is [u, cond, value].
coalesce_or(c, dc, pos) ==
    IF c.cond # dc.cond
    THEN [u |-> build_inst(dc.u, pos, or_(c.cond, dc.cond)), cond |-> dc.u.nextInst,
          value |-> c.value]
    ELSE [u |-> dc.u, cond |-> c.cond, value |-> c.value]

coalesce_mux(c, v, sel, pos) ==
    IF c.value # v
    THEN [u |-> build_inst(build_inst(c.u, pos, array(<<c.value, v>>)), pos,
                           mux(c.u.nextInst, sel)),
          cond |-> c.cond, value |-> c.u.nextInst + 1]
    ELSE c

coalesce_fold_at(c, dc, drive, pos) ==
    [coalesce_mux(coalesce_or(c, dc, pos), dc.u.dfg[drive].args[2], dc.cond, pos)
        EXCEPT !.u = remove_inst(@, drive)]

coalesce_fold(c, drive) ==
    coalesce_fold_at(c, drive_cond(c.u, insert_before(drive), drive), drive,
                     insert_before(drive))

RECURSIVE coalesce_folds(_, _)
coalesce_folds(c, drives) ==
    IF drives = <<>> THEN c ELSE coalesce_folds(coalesce_fold(c, Head(drives)), Tail(drives))

\* One run of at least two drives; the last position set is before its last drive.
coalesce_first(dc, first) ==
    [u |-> remove_inst(dc.u, first), cond |-> dc.cond, value |-> dc.u.dfg[first].args[2]]

\* Build the final drive.
coalesce_final(c, pos, target, delay) ==
    build_inst(c.u, pos, drv_cond(target, c.value, delay, c.cond))

coalesce_run(u, delay, drives) ==
    coalesce_final(
        coalesce_folds(coalesce_first(drive_cond(u, insert_before(Head(drives)), Head(drives)),
                                      Head(drives)),
                       Tail(drives)),
        insert_before(drives[Len(drives)]), u.dfg[Head(drives)].args[1], delay)

RECURSIVE coalesce_group(_, _, _)
coalesce_group(r, delay, runs) ==
    IF runs = <<>> THEN r
    ELSE IF Len(Head(runs)) <= 1 THEN coalesce_group(r, delay, Tail(runs))
    ELSE coalesce_group([u |-> coalesce_run(r.u, delay, Head(runs)), modified |-> TRUE],
                        delay, Tail(runs))

RECURSIVE coalesce_groups(_, _, _)
coalesce_groups(r, groups, delays) ==
    IF delays = <<>> THEN r
    ELSE coalesce_groups(
            coalesce_group(r, Head(delays), coalesce_runs(r.u, groups[Head(delays)], <<>>)),
            groups, Tail(delays))

coalesce_drives(u, bb, rev) ==
    LET drives == SelectSeq(u.insts[bb], LAMBDA i : is_drive(u.dfg[i].op))
        delays == {u.dfg[i].args[3] : i \in Range(drives)}
        groups == [d \in delays |-> SelectSeq(drives, LAMBDA i : u.dfg[i].args[3] = d)]
    IN coalesce_groups([u |-> u, modified |-> FALSE], groups, SetToSeq(delays, rev))

(***************************************************************************)
(* push_drives.  The result is [u, modified, log]; log lists the calls of  *)
(* push_drive in the order they were made.                                 *)
(***************************************************************************)
\* One drive of a signal: [r, stop]; stop is TRUE when the drive did not move.
push_signal_result(r, p) ==
    [r |-> [u |-> p.u, modified |-> r.modified \/ p.moved, log |-> Append(r.log, p.rec)],
     stop |-> ~p.moved]

push_signal_drive(r, drive, dt, trg, rev) ==
    IF is_tail(trg, inst_block(r.u, drive)) THEN [r |-> r, stop |-> FALSE]
    ELSE IF trg.regions[trg.blocks[inst_block(r.u, drive)]].tail_blocks = {}
    THEN [r |-> r, stop |-> FALSE]
    ELSE push_signal_result(r, push_drive(r.u, drive, dt, trg, rev))

\* The drives of one signal, from the last to the first; k is the index of
\* the drive to try next.  The loop ends at the first drive that does not move.
RECURSIVE push_signal(_, _, _, _, _, _)
\* The loop that goes on after a drive that did not move.
push_signal_next_all(s, drives, k, dt, trg, rev) ==
    push_signal(s.r, drives, k - 1, dt, trg, rev)

push_signal_next(s, drives, k, dt, trg, rev) ==
    IF s.stop THEN s.r ELSE push_signal(s.r, drives, k - 1, dt, trg, rev)

push_signal(r, drives, k, dt, trg, rev) ==
    IF k = 0 THEN r
    ELSE push_signal_next(push_signal_drive(r, drives[k], dt, trg, rev), drives, k, dt, trg, rev)

RECURSIVE push_signals(_, _, _, _, _, _)
push_signals(r, drv_seq, signals, dt, trg, rev) ==
    IF signals = <<>> THEN r
    ELSE push_signals(push_signal(r, drv_seq[Head(signals)], Len(drv_seq[Head(signals)]),
                                  dt, trg, rev),
                      drv_seq, Tail(signals), dt, trg, rev)

coalesce_merge(r, c) == [r EXCEPT !.u = c.u, !.modified = @ \/ c.modified]

RECURSIVE coalesce_blocks(_, _, _)
coalesce_blocks(r, bbs, rev) ==
    IF bbs = <<>> \/ r.u.panic # "" THEN r
    ELSE coalesce_blocks(coalesce_merge(r, coalesce_drives(r.u, Head(bbs), rev)), Tail(bbs), rev)

push_coalesce(r, rev) == coalesce_blocks(r, r.u.blocks, rev)

push_drives_in(u, dt, seqs, trg, rev) ==
    IF ~trg.ok \/ \E signal \in DOMAIN seqs.drv_seq : \E drive \in Range(seqs.drv_seq[signal]) :
                    ~trg_has(trg, inst_block(u, drive))
    THEN [u |-> panic(u, "block has no region"), modified |-> FALSE, log |-> <<>>]
    ELSE push_coalesce(push_signals([u |-> u, modified |-> FALSE, log |-> <<>>],
                                    seqs.drv_seq, SetToSeq(DOMAIN seqs.drv_seq, rev),
                                    dt, trg, rev),
                       rev)

push_drives_with(u, dt, trg, rev) == push_drives_in(u, dt, drive_sequences(u, dt), trg, rev)

push_drives(u, rev) ==
    push_drives_with(u, DominatorTree_new(u, PredecessorTable_new(u)),
                     TemporalRegionGraph_new(u), rev)

(***************************************************************************)
(* The processes the pass is run on.  A process is built from a shape (the *)
(* terminator of each block), the kind of instruction that produces the    *)
(* branch conditions, a drive plan and a probe plan.  Instruction ids:     *)
(*   1, 2  the branch conditions c and d   3  the delay   4, 5  values     *)
(*   6     a probe of a unit argument      7  a user of that probe         *)
(*   8, 9  drives (6, 7, 8, 9 when four)   10  a value local to a block    *)
(*   10 + b  the terminator of block b                                     *)
(***************************************************************************)
Br(k) == InstData("br", <<>>, <<k>>, 0, "void")
BrCond(x, j, k) == InstData("br_cond", <<x>>, <<j, k>>, 0, "void")
Wait(k, a) == InstData("wait", <<a>>, <<k>>, 0, "void")
WaitTime(k) == InstData("wait_time", <<3>>, <<k>>, 0, "void")
Halt == InstData("halt", <<>>, <<>>, 0, "void")

Shapes ==
    << <<Br(2), Wait(1, -1)>>,
       <<BrCond(1, 2, 3), Wait(1, -1), Wait(1, -1)>>,
       <<BrCond(1, 2, 3), Wait(4, -1), Wait(4, -1), Wait(1, -1)>>,
       <<BrCond(1, 2, 3), Wait(4, -1), Wait(4, -2), Wait(1, -1)>>,
       <<BrCond(1, 4, 2), Wait(3, -1), BrCond(2, 4, 5), Wait(1, -1), Br(4)>>,
       <<BrCond(1, 3, 2), Br(3), Wait(1, -1)>>,
       <<BrCond(1, 2, 3), Br(4), Br(4), Wait(1, -1)>>,
       <<BrCond(1, 4, 2), BrCond(2, 3, 3), Br(4), Wait(1, -1)>>,
       <<BrCond(1, 2, 3), BrCond(2, 3, 4), Br(4), Wait(1, -1)>>,
       <<Br(2), Wait(1, -1), Halt>>,
       <<Br(2), Wait(1, -1), Br(2)>>,
       <<BrCond(1, 2, 3), Halt, Halt>>,
       <<BrCond(1, 2, 3), Wait(1, -1), WaitTime(1)>>,
       <<Wait(2, -1), Br(3), Wait(2, -1)>>,
       <<BrCond(1, 2, 3), BrCond(2, 4, 5), Br(4), Br(5), Wait(1, -1)>>,
       <<BrCond(1, 2, 3), BrCond(2, 4, 3), Wait(1, -1), Wait(1, -2)>> >>

CondKinds == {"prb", "call"}

\* No drive (bb = 0), or n drives of one kind in block bb.  The values of the
\* drives are defined in the entry block, but for one drive (local) whose
\* value is defined in block bb itself: the last of one or two drives, the
\* second of four.
NoDrive == [bb |-> 0, n |-> 0, kind |-> "drv", local |-> FALSE]

DrivePlans(nb) ==
    {NoDrive}
    \cup [bb : 1..nb, n : 1..2, kind : {"drv", "drv_cond"}, local : BOOLEAN]
    \cup [bb : 1..nb, n : {4}, kind : {"drv", "drv_cond"}, local : {TRUE}]

PlanDrives(dp) ==
    CASE dp.n = 0 -> <<>> [] dp.n = 1 -> <<8>> [] dp.n = 2 -> <<8, 9>> [] OTHER -> <<6, 7, 8, 9>>

LocalDrive(dp) ==
    IF ~dp.local THEN 0 ELSE CASE dp.n = 1 -> 8 [] dp.n = 2 -> 9 [] OTHER -> 7

\* No probe (pb = 0), or a probe in block pb with its user in block ub.
ProbePlans(nb) == {[pb |-> 0, ub |-> 0]} \cup [pb : 1..nb, ub : 1..nb]

Plans ==
    UNION {[shape : {k}, ck : CondKinds, dp : DrivePlans(Len(Shapes[k])), pp : {[pb |-> 0, ub |-> 0]}]
           \cup [shape : {k}, ck : CondKinds, dp : {NoDrive},
                 pp : ProbePlans(Len(Shapes[k]))] : k \in DOMAIN Shapes}

CondSource(ck, sig) ==
    IF ck = "prb" THEN InstData("prb", <<sig>>, <<>>, 0, "value")
    ELSE InstData("call", <<>>, <<>>, 0, "value")

PlanDrive(kind, value) ==
    IF kind = "drv" THEN InstData("drv", <<-4, value, 3>>, <<>>, 0, "void")
    ELSE drv_cond(-4, value, 3, 2)

MkProcess(plan) ==
    LET shape == Shapes[plan.shape]
        nb == Len(shape)
        value(i) == IF i = LocalDrive(plan.dp) THEN 10 ELSE IF i \in {6, 8} THEN 4 ELSE 5
        body(b) ==
            (IF b = 1 THEN <<1, 2, 3, 4, 5>> ELSE <<>>)
            \o (IF plan.pp.pb = b THEN <<6>> ELSE <<>>)
            \o (IF plan.pp.ub = b THEN <<7>> ELSE <<>>)
            \o (IF plan.dp.bb = b /\ plan.dp.local THEN <<10>> ELSE <<>>)
            \o (IF plan.dp.bb = b THEN PlanDrives(plan.dp) ELSE <<>>)
            \o <<10 + b>>
        ids == UNION {Range(body(b)) : b \in 1..nb}
        data(i) ==
            CASE i = 1 -> CondSource(plan.ck, -1)
              [] i = 2 -> CondSource(plan.ck, -2)
              [] i = 3 -> InstData("const_time", <<>>, <<>>, 0, "value")
              [] i = 4 -> const_int(0)
              [] i = 5 -> const_int(1)
              [] i \in Range(PlanDrives(plan.dp)) -> PlanDrive(plan.dp.kind, value(i))
              [] i = 6 -> InstData("prb", <<-3>>, <<>>, 0, "value")
              [] i = 7 -> not_(6)
              [] i = 10 -> const_int(0)
              [] OTHER -> shape[i - 10]
    IN [blocks |-> [b \in 1..nb |-> b],
        insts |-> [b \in 1..nb |-> body(b)],
        dfg |-> [i \in ids |-> data(i)],
        nextInst |-> 20, nextBlock |-> nb + 1, panic |-> ""]

(***************************************************************************)
(* Well-formedness of a unit.                                              *)
(***************************************************************************)
BlocksTerminated(u) ==
    \A bb \in Range(u.blocks) :
        /\ u.insts[bb] # <<>>
        /\ \A k \in DOMAIN u.insts[bb] :
              is_terminator(u.dfg[u.insts[bb][k]].op) <=> k = Len(u.insts[bb])

\* The definition of value v precedes its use by instruction i.
Precedes(u, dt, v, i) ==
    \/ v < 0
    \/ /\ inst_in_layout(u, v)
       /\ LET db == inst_block(u, v)
              ub == inst_block(u, i)
          IN IF db = ub THEN IndexOf(u.insts[db], v) < IndexOf(u.insts[ub], i)
             ELSE dominates(dt, db, ub)

DefBeforeUse(u) ==
    LET dt == DominatorTree_new(u, PredecessorTable_new(u))
    IN \A i \in AllInsts(u) : \A k \in DOMAIN u.dfg[i].args :
          Precedes(u, dt, u.dfg[i].args[k], i)

WellFormed(u) == BlocksTerminated(u) /\ DefBeforeUse(u)

(***************************************************************************)
(* Execution of a region.  A branch `br x, bb0, bb1` goes to the target at *)
(* the position the condition gives (push_drive: "parent -> src_finger     *)
(* (cond_val == cond_pol)").  The values of probes and calls are free; a   *)
(* valuation gives each of them one bit.                                   *)
(***************************************************************************)
branch_target(term, x) == term.bbs[x + 1]

FreeValues(u) == {i \in DOMAIN u.dfg : u.dfg[i].op \in {"prb", "call"}}

Valuations(u) == [FreeValues(u) -> {0, 1}]

RECURSIVE Eval(_, _, _)
Eval(u, v, val) ==
    IF v \notin DOMAIN u.dfg THEN 0
    ELSE LET data == u.dfg[v]
         IN CASE data.op = "const_int" -> data.imm
              [] data.op = "not" -> 1 - Eval(u, data.args[1], val)
              [] data.op = "and" ->
                    IF Eval(u, data.args[1], val) = 1 THEN Eval(u, data.args[2], val) ELSE 0
              [] data.op = "or" ->
                    IF Eval(u, data.args[1], val) = 1 THEN 1 ELSE Eval(u, data.args[2], val)
              [] data.op \in {"prb", "call"} -> val[v]
              [] OTHER -> 0

\* The paths within the blocks `within` that extend `path` and end in dst,
\* without passing a block twice.
RECURSIVE PathsTo(_, _, _, _)
PathsTo(pt, within, path, dst) ==
    LET last == path[Len(path)]
    IN IF last = dst THEN {path}
       ELSE UNION {PathsTo(pt, within, Append(path, n), dst) :
                      n \in (Range(pt.succ[last]) \cap within) \ Range(path)}

\* The paths through region tr from one of its head blocks to block dst.
RegionPaths(u, tr, dst) ==
    LET trg == TemporalRegionGraph_new(u)
        pt == PredecessorTable_new(u)
    IN UNION {PathsTo(pt, trg.regions[tr].blocks, <<h>>, dst) : h \in trg.regions[tr].head_blocks}

\* The branches along the path go the way the valuation says.
TakesPath(u, path, val) ==
    \A k \in 1..(Len(path) - 1) :
        LET term == u.dfg[terminator(u, path[k])]
        IN term.op = "br_cond" => branch_target(term, Eval(u, term.args[1], val)) = path[k + 1]

(***************************************************************************)
(* The pass driver: run_on_cfg step by step, repeated while it reports a   *)
(* modification.                                                           *)
(*   unit      the process                                                 *)
(*   pc        the position within run_on_cfg and the driver loop          *)
(*   modified  the flag of the current run                                 *)
(*   start     the unit when the current run started                       *)
(*   pre       the unit before the step taken last                         *)
(*   log       the push_drive calls of the last push_drives                *)
(*   rerun     TRUE when a run has completed before the current one        *)
(* The other parts of the library have a variable each, which is <<>> while*)
(* the part is not the one under study:                                    *)
(*   builder   a unit builder and the unit it builds                       *)
(*   opcode    an opcode and what is known of where it is valid            *)
(*   driver    Pass::run_on_module over the units of a module              *)
(*   writer    the assembly writer and its name tables                     *)
(*   printer   a type or a time constant and its textual form              *)
(*   tool      llhd-check over its input files                             *)
(*   linker    a module and the outcome of link()                          *)
(*   simp      instruction simplification on one instruction of a unit     *)
(*   regs      a register instruction and its operand accessors            *)
(*   ids       ValueId::alloc called from several threads                  *)
(***************************************************************************)
VARIABLES unit, pc, modified, start, pre, log, rerun, builder, opcode, driver, writer,
          printer, tool, linker, simp, regs, ids

vars == <<unit, pc, modified, start, pre, log, rerun, builder, opcode, driver, writer,
          printer, tool, linker, simp, regs, ids>>

\* The variables of temporal code motion and its driver.
tcm == <<unit, pc, modified, start, pre, log, rerun>>

MaxBlocks == 7

Init ==
    /\ \E plan \in Plans : unit = MkProcess(plan) /\ WellFormed(unit)
    /\ pc = "idle"
    /\ modified = FALSE
    /\ start = unit
    /\ pre = unit
    /\ log = <<>>
    /\ rerun = FALSE
    /\ builder = <<>> /\ opcode = <<>> /\ driver = <<>> /\ writer = <<>>
    /\ printer = <<>> /\ tool = <<>> /\ linker = <<>> /\ simp = <<>> /\ regs = <<>> /\ ids = <<>>

\* A step of run_on_cfg with result r = [u, modified] has been taken.
Step(r, next) ==
    /\ unit' = r.u
    /\ pre' = unit
    /\ pc' = IF r.u.panic # "" THEN "panicked" ELSE next
    /\ modified' = ((pc # "idle" /\ modified) \/ r.modified)
    /\ start' = IF pc = "idle" THEN unit ELSE start
    /\ log' = IF pc = "auxed" THEN r.log ELSE log
    /\ UNCHANGED <<rerun, builder, opcode, driver, writer, printer, tool, linker, simp, regs, ids>>

HoistProbes ==
    /\ pc = "idle"
    /\ Step(hoist_probes(unit), "hoisted")

FuseWaits ==
    /\ pc = "hoisted"
    /\ \E rev \in BOOLEAN : Step(fuse_waits(unit, rev), "fused")

AddAuxBlocks ==
    /\ pc = "fused"
    /\ \E rev \in BOOLEAN : Step(add_aux_blocks(unit, rev), "auxed")

PushDrives ==
    /\ pc = "auxed"
    /\ \E rev \in BOOLEAN : Step(push_drives(unit, rev), "done")

\* The driver runs the pass again when it reported a modification.
RunAgain ==
    /\ pc = "done"
    /\ modified
    /\ Len(unit.blocks) < MaxBlocks
    /\ pc' = "idle"
    /\ rerun' = TRUE
    /\ UNCHANGED <<unit, modified, start, pre, log, builder, opcode, driver, writer,
                   printer, tool, linker, simp, regs, ids>>

\* The unit has outgrown the bound of the model.
GiveUp ==
    /\ pc = "done"
    /\ modified
    /\ Len(unit.blocks) >= MaxBlocks
    /\ pc' = "capped"
    /\ UNCHANGED <<unit, modified, start, pre, log, rerun, builder, opcode, driver, writer,
                   printer, tool, linker, simp, regs, ids>>

Stop ==
    /\ pc = "done"
    /\ ~modified
    /\ pc' = "stopped"
    /\ UNCHANGED <<unit, modified, start, pre, log, rerun, builder, opcode, driver, writer,
                   printer, tool, linker, simp, regs, ids>>

Next == HoistProbes \/ FuseWaits \/ AddAuxBlocks \/ PushDrives \/ RunAgain \/ GiveUp \/ Stop

Spec == Init /\ [][Next]_vars

\* The positions at which the driver loop has come to an end.
Terminal == {"stopped", "panicked", "capped"}

\* The driver moves on to some other position.  Every step of Next is such a
\* move, and some step of Next can be taken at every position that is not
\* terminal.
Advance ==
    /\ pc \notin Terminal
    /\ \E p \in {"idle", "hoisted", "fused", "auxed", "done"} \cup Terminal : pc' = p

\* No step of the pass waits for anything, and each of them comes to an end:
\* a driver that is not at a terminal position moves on.
FairSpec == Spec /\ WF_pc(Advance)

\* The layout and the data flow graph of a unit.
IR(u) == [blocks |-> u.blocks, insts |-> u.insts, dfg |-> u.dfg]

(***************************************************************************)
(* C1: drive sinking preserves semantics.  After push_drives, for every    *)
(* drive that push_drive moved, every tail block dst it was moved to, and  *)
(* every path through the region of the drive that ends in dst: the        *)
(* condition of the drv_cond built in dst is true on the path exactly when *)
(* the path executes the drive, with a true condition if it has one.       *)
(***************************************************************************)
DriveExecuted(rec, path, val) ==
    /\ rec.src \in Range(path)
    /\ rec.data.op = "drv_cond" => Eval(pre, rec.data.args[4], val) = 1

SunkDriveAgrees(rec, m) ==
    \A path \in RegionPaths(pre, rec.tr, rec.moves[m].dst) :
        \A val \in Valuations(pre) :
            TakesPath(pre, path, val) =>
                ((Eval(unit, unit.dfg[rec.built[m]].args[4], val) = 1)
                    <=> DriveExecuted(rec, path, val))

C1_SinkingPreservesSemantics ==
    pc = "done" =>
        \A k \in DOMAIN log : log[k].moved =>
            \A m \in DOMAIN log[k].moves :
                log[k].built[m] \in AllInsts(unit) => SunkDriveAgrees(log[k], m)
(***************************************************************************)
(* C2: the fixed-point loop terminates.  Running the pass until it reports *)
(* no modification comes to an end: the driver eventually stops (or the    *)
(* pass panics, or the unit outgrows the bound of the model).              *)
(***************************************************************************)
C2_FixedPointTerminates == <>(pc \in Terminal)

(***************************************************************************)
(* C3: the pass is idempotent.  A run on the result of a previous run      *)
(* leaves the blocks, the layout order and the instructions as they were.  *)
(***************************************************************************)
C3_Idempotent == (pc = "done" /\ rerun) => IR(unit) = IR(start)

(***************************************************************************)
(* C4: the flag run_on_cfg returns is true exactly when the layout or the  *)
(* data flow graph after the run differs from the one before it.           *)
(***************************************************************************)
C4_ReturnsWhetherChanged == pc = "done" => (modified <=> IR(unit) # IR(start))

(***************************************************************************)
(* C5: the pass never fails.  No step panics on the lookup of a block that *)
(* has no region, and a run in which no step applies leaves the IR as it   *)
(* was.                                                                    *)
(***************************************************************************)
C5_NeverFails ==
    /\ unit.panic # "block has no region"
    /\ (pc = "done" /\ ~modified) => IR(unit) = IR(start)
(***************************************************************************)
(* C6: probe hoisting.  A probe is moved to the front of block H exactly   *)
(* when its region has the one head block H, it probes a unit argument, H  *)
(* temporally dominates its block and the block of every instruction that  *)
(* uses its result.  After the hoist step the hoisted probes of H are the  *)
(* first instructions of H, and all other instructions are where they were.*)
(***************************************************************************)
ProbeHoistsTo(u, trg, temp_dt, i, H) ==
    /\ u.dfg[i].op = "prb"
    /\ trg_has(trg, inst_block(u, i))
    /\ trg.regions[trg.blocks[inst_block(u, i)]].head_blocks = {H}
    /\ u.dfg[i].args[1] < 0
    /\ dominates(temp_dt, H, inst_block(u, i))
    /\ \A j \in AllInsts(u) :
          i \in Range(u.dfg[j].args) => dominates(temp_dt, H, inst_block(u, j))

HoistedInto(u, H) ==
    LET trg == TemporalRegionGraph_new(u)
        temp_dt == DominatorTree_new(u, PredecessorTable_new_temporal(u))
    IN {i \in AllInsts(u) : ProbeHoistsTo(u, trg, temp_dt, i, H)}

Hoisted(u) == UNION {HoistedInto(u, H) : H \in Range(u.blocks)}

C6_ProbeHoisting ==
    pc = "hoisted" =>
        \A bb \in Range(pre.blocks) :
            LET n == Cardinality(HoistedInto(pre, bb))
                now == unit.insts[bb]
            IN /\ Len(now) >= n
               /\ Range(SubSeq(now, 1, n)) = HoistedInto(pre, bb)
               /\ SubSeq(now, n + 1, Len(now))
                    = SelectSeq(pre.insts[bb], LAMBDA i : i \notin Hoisted(pre))

\* A probe has been hoisted out of its block into the head, and a probe whose
\* user the head does not dominate has stayed behind other instructions.
C6_Witness ==
    /\ pc = "hoisted"
    /\ \E H \in Range(pre.blocks) : \E i \in HoistedInto(pre, H) : inst_block(pre, i) # H
    /\ \E i \in AllInsts(pre) \ Hoisted(pre) :
          /\ pre.dfg[i].op = "prb"
          /\ inst_block(unit, i) = inst_block(pre, i)

(***************************************************************************)
(* C7: wait fusion.  Whenever two blocks of one region end in identical    *)
(* wait instructions, then after the fusion step exactly one of these      *)
(* waits is left, it is the only instruction of a new block, and each of   *)
(* the blocks that ended in one of them ends in a branch to the new block. *)
(***************************************************************************)
SameWaits(u, trg, a) ==
    {terminator(u, b) : b \in {b \in DOMAIN trg.blocks :
        /\ trg.blocks[b] = trg.blocks[a]
        /\ u.dfg[terminator(u, b)] = u.dfg[terminator(u, a)]}}

FusedInto(waits, data, unified_bb) ==
    /\ Len(unit.insts[unified_bb]) = 1
    /\ unit.insts[unified_bb][1] \in waits
    /\ unit.dfg[unit.insts[unified_bb][1]] = data
    /\ waits \cap AllInsts(unit) = {unit.insts[unified_bb][1]}
    /\ \A w \in waits : unit.dfg[terminator(unit, inst_block(pre, w))] = br(unified_bb)

C7_WaitFusion ==
    pc = "fused" =>
        LET trg == TemporalRegionGraph_new(pre)
        IN \A a \in DOMAIN trg.blocks :
              (/\ is_temporal(pre.dfg[terminator(pre, a)].op)
               /\ Cardinality(SameWaits(pre, trg, a)) >= 2)
              => \E unified_bb \in Range(unit.blocks) \ Range(pre.blocks) :
                    FusedInto(SameWaits(pre, trg, a), pre.dfg[terminator(pre, a)], unified_bb)
(***************************************************************************)
(* C8: auxiliary exit blocks.  After add_aux_blocks, in the region graph   *)
(* of the resulting unit no head block has two predecessor terminators in  *)
(* one and the same other region; every block the step created holds the   *)
(* single instruction `br H`; and every instruction the step changed is a  *)
(* predecessor terminator of H that targets the new block in place of H.   *)
(***************************************************************************)
DedicatedExits(u) ==
    LET trg == TemporalRegionGraph_new(u)
        pt == PredecessorTable_new(u)
    IN /\ trg.ok
       /\ \A H \in DOMAIN trg.blocks : \A p, q \in pt.pred[H] :
             (is_head(trg, H) /\ p # q /\ trg.blocks[p] = trg.blocks[q])
                => trg.blocks[p] = trg.blocks[H]

AuxOf(aux_bb, H) ==
    /\ Len(unit.insts[aux_bb]) = 1
    /\ unit.dfg[unit.insts[aux_bb][1]] = br(H)

C8_AuxBlocks ==
    pc = "auxed" =>
        /\ DedicatedExits(unit)
        /\ \A aux_bb \in Range(unit.blocks) \ Range(pre.blocks) :
              \E H \in Range(pre.blocks) : AuxOf(aux_bb, H)
        /\ \A i \in AllInsts(pre) :
              \/ unit.dfg[i] = pre.dfg[i]
              \/ \E aux_bb \in Range(unit.blocks) \ Range(pre.blocks) :
                 \E H \in Range(pre.dfg[i].bbs) :
                    /\ AuxOf(aux_bb, H)
                    /\ unit.dfg[i] = replace_block(pre.dfg[i], H, aux_bb)

(***************************************************************************)
(* C9: the polarity of a recorded branch condition.  The original claim:   *)
(* every step of the walk from src whose parent ends in                    *)
(* `br cond, bb0, bb1` records (cond, side) with side = (src_finger = bb0),*)
(* and the condition built in the tail block takes cond as it is when side *)
(* is true and `not cond` when it is false.                                *)
(***************************************************************************)
\* The condition that step k of a move recorded.
StepCond(move, k) == move.conds[Cardinality({j \in 1..k : move.steps[j].recorded})]

\* The second operands of the chain of `and` instructions that yields v,
\* from the last one built to the first.
RECURSIVE AndOperands(_, _)
AndOperands(u, v) ==
    IF v \in DOMAIN u.dfg /\ u.dfg[v].op = "and"
    THEN <<u.dfg[v].args[2]>> \o AndOperands(u, u.dfg[v].args[1])
    ELSE <<>>

\* The drv_cond built for move m and-s the recorded conditions of the move,
\* each as it is or negated, after the condition of the drive itself.
SynthesizedFrom(rec, m) ==
    LET operands == AndOperands(unit, unit.dfg[rec.built[m]].args[4])
        own == IF rec.data.op = "drv_cond" THEN 1 ELSE 0
        conds == rec.moves[m].conds
    IN /\ Len(operands) = Len(conds) + own
       /\ own = 1 => operands[1] = rec.data.args[4]
       /\ \A j \in DOMAIN conds :
             IF conds[j][2] THEN operands[own + j] = conds[j][1]
             ELSE /\ operands[own + j] \in DOMAIN unit.dfg
                  /\ unit.dfg[operands[own + j]] = not_(conds[j][1])

AllSynthesized ==
    \A k \in DOMAIN log : log[k].moved =>
        \A m \in DOMAIN log[k].moves :
            log[k].built[m] \in AllInsts(unit) => SynthesizedFrom(log[k], m)

C9_PolarityFirstTarget ==
    pc = "done" =>
        /\ \A k \in DOMAIN log : \A m \in DOMAIN log[k].moves :
              \A j \in DOMAIN log[k].moves[m].steps :
                 LET step == log[k].moves[m].steps[j]
                     term == pre.dfg[terminator(pre, step.parent)]
                 IN term.op = "br_cond" =>
                       /\ step.recorded
                       /\ StepCond(log[k].moves[m], j)
                            = <<term.args[1], step.finger = term.bbs[1]>>
        /\ AllSynthesized

(***************************************************************************)
(* C9 as amended: a step whose parent ends in `br cond, bb0, bb1` records  *)
(* (cond, side) when src_finger is a target of the branch, with side =     *)
(* (src_finger # bb0), and records nothing when it is not a target; the    *)
(* condition built in the tail block takes cond as it is when side is true *)
(* and `not cond` when it is false.                                        *)
(***************************************************************************)
C9_PolarityNotFirstTarget ==
    pc = "done" =>
        /\ \A k \in DOMAIN log : \A m \in DOMAIN log[k].moves :
              \A j \in DOMAIN log[k].moves[m].steps :
                 LET step == log[k].moves[m].steps[j]
                     term == pre.dfg[terminator(pre, step.parent)]
                 IN IF term.op = "br_cond" /\ step.finger \in Range(term.bbs)
                    THEN /\ step.recorded
                         /\ StepCond(log[k].moves[m], j)
                              = <<term.args[1], step.finger # term.bbs[1]>>
                    ELSE ~step.recorded
        /\ AllSynthesized

\* A drive has been sunk over a branch it is the first target of and over a
\* branch it is the second target of, and the negation has been built.
C9_Witness ==
    /\ pc = "done"
    /\ \E k \in DOMAIN log : \E m \in DOMAIN log[k].moves :
          /\ log[k].moved
          /\ log[k].built[m] \in AllInsts(unit)
          /\ \E j \in DOMAIN log[k].moves[m].conds : log[k].moves[m].conds[j][2]
          /\ \E j \in DOMAIN log[k].moves[m].conds : ~log[k].moves[m].conds[j][2]

(***************************************************************************)
(* C10: definition before use.  After every step of the pass each operand  *)
(* of each instruction is a unit argument or the result of an instruction  *)
(* that precedes it: earlier in the same block, or in a block that         *)
(* dominates it.                                                           *)
(***************************************************************************)
C10_DefBeforeUse == pc \in {"hoisted", "fused", "auxed", "done"} => DefBeforeUse(unit)

(***************************************************************************)
(* C11: drive sinking is all-or-nothing and keeps the order.  A call of    *)
(* push_drive whose checks fail for some tail block leaves the unit as it  *)
(* was; it is the last call for its root signal in the run; a call that    *)
(* moves the drive builds one drive in every tail block of the region; and *)
(* of two moved drives of one root signal, the one that came first is      *)
(* first in every tail block both were moved to.                           *)
(***************************************************************************)
\* The unit when the sinking loop of push_drives started, and when it ended.
SinkStart == log[1].before

SunkUnit == log[Len(log)].after

RootSignal(rec) ==
    MapGet(drive_sequences(SinkStart,
                           DominatorTree_new(SinkStart, PredecessorTable_new(SinkStart))).aliases,
           rec.data.args[1])

\* Drive d1 executes before drive d2 in the unit u: earlier in one block, or
\* in a block of the region from which the block of d2 is reached, and not
\* the other way round.
OriginallyBefore(u, d1, d2) ==
    LET b1 == inst_block(u, d1)
        b2 == inst_block(u, d2)
        pt == PredecessorTable_new(u)
        trg == TemporalRegionGraph_new(u)
        within == trg.regions[trg.blocks[b1]].blocks
    IN IF b1 = b2 THEN IndexOf(u.insts[b1], d1) < IndexOf(u.insts[b1], d2)
       ELSE /\ PathsTo(pt, within, <<b1>>, b2) # {}
            /\ PathsTo(pt, within, <<b2>>, b1) = {}

AllOrNothing(rec) ==
    IF rec.moved
    THEN /\ {rec.moves[m].dst : m \in DOMAIN rec.moves}
              = TemporalRegionGraph_new(rec.before).regions[rec.tr].tail_blocks
         /\ \A m \in DOMAIN rec.moves :
               /\ rec.built[m] \in Range(rec.after.insts[rec.moves[m].dst])
               /\ rec.built[m] \notin AllInsts(rec.before)
         /\ rec.drive \notin AllInsts(rec.after)
    ELSE /\ rec.after = rec.before
         /\ rec.built = <<>>
         /\ rec.drive \in AllInsts(rec.after)

StopsAfterFailure ==
    \A k, l \in DOMAIN log :
        (k < l /\ RootSignal(log[k]) = RootSignal(log[l])) => log[k].moved

OrderPreserved ==
    \A k, l \in DOMAIN log : \A m \in DOMAIN log[k].moves : \A n \in DOMAIN log[l].moves :
        (/\ log[k].moved /\ log[l].moved
         /\ RootSignal(log[k]) = RootSignal(log[l])
         /\ log[k].moves[m].dst = log[l].moves[n].dst
         /\ OriginallyBefore(SinkStart, log[k].drive, log[l].drive))
        => IndexOf(SunkUnit.insts[log[k].moves[m].dst], log[k].built[m])
             < IndexOf(SunkUnit.insts[log[l].moves[n].dst], log[l].built[n])

C11_AllOrNothingInOrder ==
    /\ \A k \in DOMAIN log : AllOrNothing(log[k])
    /\ StopsAfterFailure
    /\ OrderPreserved

\* Two drives of a signal have been moved; the checks of the next one passed
\* for one tail block and failed for another, and it stayed where it was, as
\* did the drive before it.
C11_Witness ==
    /\ Len(log) = 3
    /\ log[1].moved /\ log[2].moved /\ ~log[3].moved
    /\ \E m, n \in DOMAIN log[3].moves : log[3].moves[m].ok /\ ~log[3].moves[n].ok
    /\ \E d \in AllInsts(SunkUnit) \cap AllInsts(SinkStart) :
          /\ is_drive(SunkUnit.dfg[d].op)
          /\ inst_block(SinkStart, d) = log[3].src
          /\ OriginallyBefore(SinkStart, d, log[3].drive)

(***************************************************************************)
(* C12: the result of drive coalescing.  For every run of two or more      *)
(* drives of one block with the same delay and the same signal, push_drives*)
(* ends with none of the drives of the run left and exactly one new        *)
(* drv_cond on that signal and delay in the block, whose condition is true *)
(* exactly when the condition of some drive of the run is, and whose value *)
(* is then the value of the last drive of the run with a true condition.   *)
(***************************************************************************)
\* The unit when the coalescing of push_drives started.
PreCoalesce == IF log = <<>> THEN pre ELSE SunkUnit

\* The runs of block bb, as sequences of drives.
RunsOf(u, bb) ==
    LET drives == SelectSeq(u.insts[bb], LAMBDA i : is_drive(u.dfg[i].op))
        delays == {u.dfg[i].args[3] : i \in Range(drives)}
        runs(d) == coalesce_runs(u, SelectSeq(drives, LAMBDA i : u.dfg[i].args[3] = d), <<>>)
    IN UNION {{runs(d)[k] : k \in DOMAIN runs(d)} : d \in delays}

\* The condition of a drive: 1 for an unconditional one.
CondOf(u, d, val) == IF u.dfg[d].op = "drv_cond" THEN Eval(u, u.dfg[d].args[4], val) ELSE 1

\* The value a chain of mux instructions selects.
RECURSIVE Selected(_, _, _)
Selected(u, v, val) ==
    IF v \in DOMAIN u.dfg /\ u.dfg[v].op = "mux"
    THEN LET options == u.dfg[u.dfg[v].args[1]].args
         IN Selected(u, options[Eval(u, u.dfg[v].args[2], val) + 1], val)
    ELSE v

CoalescedInto(u0, run, d) ==
    /\ unit.dfg[d].op = "drv_cond"
    /\ unit.dfg[d].args[1] = u0.dfg[run[1]].args[1]
    /\ unit.dfg[d].args[3] = u0.dfg[run[1]].args[3]
    /\ \A val \in Valuations(unit) :
          LET on == {k \in DOMAIN run : CondOf(u0, run[k], val) = 1}
          IN /\ (Eval(unit, unit.dfg[d].args[4], val) = 1) <=> (on # {})
             /\ on # {} => Selected(unit, unit.dfg[d].args[2], val) = u0.dfg[run[MaxOf(on)]].args[2]

C12_CoalescedRuns ==
    (pc = "done" \/ unit.panic = "inst not inserted") =>
        \A bb \in Range(PreCoalesce.blocks) : \A run \in RunsOf(PreCoalesce, bb) :
            Len(run) >= 2 =>
                /\ Range(run) \cap AllInsts(unit) = {}
                /\ Cardinality({d \in Range(unit.insts[bb]) \ AllInsts(PreCoalesce) :
                                   CoalescedInto(PreCoalesce, run, d)}) = 1

(***************************************************************************)
(* C13: the regions partition the blocks.  In the graph that               *)
(* TemporalRegionGraph::new returns, the entry block and every target of a *)
(* wait have a region each, different from one another; the blocks with a  *)
(* region are the blocks reached from these seeds along the edges of       *)
(* terminators that are not waits; and the block sets of the regions are   *)
(* pairwise disjoint, cover the blocks of the map, and agree with it.      *)
(***************************************************************************)
Seeds(u) ==
    {entry(u)} \cup UNION {Range(u.dfg[terminator(u, bb)].bbs) :
                              bb \in {b \in Range(u.blocks) :
                                         is_temporal(u.dfg[terminator(u, b)].op)}}

\* The blocks reached from the blocks S along edges that are not wait edges.
RECURSIVE ReachedFrom(_, _)
ReachedFrom(u, S) ==
    LET N == S \cup UNION {Range(u.dfg[terminator(u, b)].bbs) :
                              b \in {b \in S : ~is_temporal(u.dfg[terminator(u, b)].op)}}
    IN IF N = S THEN S ELSE ReachedFrom(u, N)

RegionPartition(u, trg) ==
    /\ Seeds(u) \subseteq DOMAIN trg.blocks
    /\ \A s1, s2 \in Seeds(u) : s1 # s2 => trg.blocks[s1] # trg.blocks[s2]
    /\ DOMAIN trg.blocks = ReachedFrom(u, Seeds(u))
    /\ \A i, j \in DOMAIN trg.regions :
          i # j => trg.regions[i].blocks \cap trg.regions[j].blocks = {}
    /\ UNION {trg.regions[i].blocks : i \in DOMAIN trg.regions} = DOMAIN trg.blocks
    /\ \A bb \in DOMAIN trg.blocks :
          /\ trg.blocks[bb] \in DOMAIN trg.regions
          /\ bb \in trg.regions[trg.blocks[bb]].blocks
    /\ \A i \in DOMAIN trg.regions : trg.regions[i].id = i

C13_RegionPartition ==
    TemporalRegionGraph_new(unit).ok => RegionPartition(unit, TemporalRegionGraph_new(unit))

\* The graph has been built for a unit with two seeds and two blocks that
\* are not seeds.
C13_Witness ==
    /\ pc = "hoisted"
    /\ TemporalRegionGraph_new(pre).ok
    /\ Cardinality(Seeds(pre)) >= 2
    /\ Cardinality(DOMAIN TemporalRegionGraph_new(pre).blocks \ Seeds(pre)) >= 2
    /\ RegionPartition(pre, TemporalRegionGraph_new(pre))

(***************************************************************************)
(* C14: region promotion.  A block that is no seed, is reached from two    *)
(* different seeds along edges that are not wait edges, and has            *)
(* predecessors along such edges in two different regions, is in a region  *)
(* that holds no seed, is a head block of it, and its predecessors in      *)
(* other regions are tail blocks of theirs.                                *)
(***************************************************************************)
\* The blocks that branch to bb with a terminator that is not a wait.
BranchesInto(u, trg, bb) ==
    {p \in DOMAIN trg.blocks : /\ ~is_temporal(u.dfg[terminator(u, p)].op)
                                /\ bb \in Range(u.dfg[terminator(u, p)].bbs)}

Contested(u, trg, bb) ==
    /\ bb \notin Seeds(u)
    /\ \E s1, s2 \in Seeds(u) :
          s1 # s2 /\ bb \in ReachedFrom(u, {s1}) /\ bb \in ReachedFrom(u, {s2})
    /\ \E p1, p2 \in BranchesInto(u, trg, bb) : trg.blocks[p1] # trg.blocks[p2]

Promoted(u, trg, bb) ==
    /\ trg.regions[trg.blocks[bb]].blocks \cap Seeds(u) = {}
    /\ is_head(trg, bb)
    /\ \A p \in BranchesInto(u, trg, bb) : trg.blocks[p] # trg.blocks[bb] => is_tail(trg, p)

C14_RegionPromotion ==
    TemporalRegionGraph_new(unit).ok =>
        \A bb \in DOMAIN TemporalRegionGraph_new(unit).blocks :
            Contested(unit, TemporalRegionGraph_new(unit), bb)
                => Promoted(unit, TemporalRegionGraph_new(unit), bb)

(***************************************************************************)
(* Unit builders (ir/function.rs, ir/entity.rs).                           *)
(*                                                                         *)
(* A type is a sequence of constructors that ends in a base type:          *)
(* <<"int">>, <<"signal", "int">>, <<"void">>.                             *)
(* An entity is a record                                                   *)
(*   insts     layout order of the instructions                            *)
(*   dfg       instruction id -> InstData                                  *)
(*   results   instruction id -> type of its result, for those with one    *)
(*   nextInst  the next id the arena hands out                             *)
(*   panic     why an operation panicked, "" while none did                *)
(***************************************************************************)
void_ty == <<"void">>
time_ty == <<"time">>
int_ty == <<"int">>
signal_ty(ty) == <<"signal">> \o ty

is_void(ty) == ty = void_ty
is_signal(ty) == ty[1] = "signal"
is_const(op) == op \in {"const_int", "const_time"}

entity_append_inst(e, inst) == [e EXCEPT !.insts = Append(@, inst)]

entity_prepend_inst(e, inst) == [e EXCEPT !.insts = <<inst>> \o @]

entity_insert_inst_after(e, inst, other) ==
    IF other \notin Range(e.insts) THEN panic(e, "inst not inserted")
    ELSE LET k == IndexOf(e.insts, other)
         IN [e EXCEPT !.insts = SubSeq(@, 1, k) \o <<inst>> \o SubSeq(@, k + 1, Len(@))]

entity_insert_inst_before(e, inst, other) ==
    IF other \notin Range(e.insts) THEN panic(e, "inst not inserted")
    ELSE LET k == IndexOf(e.insts, other)
         IN [e EXCEPT !.insts = SubSeq(@, 1, k - 1) \o <<inst>> \o SubSeq(@, k, Len(@))]

entity_layout_remove_inst(e, inst) ==
    IF inst \notin Range(e.insts) THEN panic(e, "inst not inserted")
    ELSE [e EXCEPT !.insts = SeqWithout(@, inst)]

\* The result type of an instruction built in an entity, without the
\* exception for constants.
entity_result_ty_all(op, ty) ==
    IF ~is_signal(ty) /\ ~is_void(ty) THEN signal_ty(ty) ELSE ty

\* The result type of an instruction built in an entity.
entity_result_ty(op, ty) ==
    IF ~is_signal(ty) /\ ~is_void(ty) /\ ~is_const(op) THEN signal_ty(ty) ELSE ty

\* EntityBuilder::build_inst; the new instruction is e.nextInst.
entity_add_inst(e, data, ty) ==
    [e EXCEPT !.dfg = (e.nextInst :> data) @@ @,
              !.results = IF is_void(ty) THEN @ ELSE (e.nextInst :> ty) @@ @,
              !.nextInst = @ + 1]

entity_insert_at(e, pos, inst) ==
    CASE pos.kind = "Append" -> entity_append_inst(e, inst)
      [] pos.kind = "Prepend" -> entity_prepend_inst(e, inst)
      [] pos.kind = "After" -> entity_insert_inst_after(e, inst, pos.at)
      [] pos.kind = "Before" -> entity_insert_inst_before(e, inst, pos.at)

entity_build_inst(e, pos, data, ty) ==
    entity_insert_at(entity_add_inst(e, data, entity_result_ty(data.op, ty)), pos, e.nextInst)

entity_remove_inst(e, inst) ==
    entity_layout_remove_inst(
        [e EXCEPT !.dfg = [i \in (DOMAIN @) \ {inst} |-> @[i]],
                  !.results = [i \in (DOMAIN @) \ {inst} |-> @[i]]], inst)

insert_at_end == [kind |-> "Append", at |-> 0]
insert_at_beginning == [kind |-> "Prepend", at |-> 0]

(***************************************************************************)
(* A builder at work.  `builder` is a record                               *)
(*   kind      "function" or "entity"                                      *)
(*   unit      the unit being built                                        *)
(*   pos       the insertion position                                      *)
(*   selected  whether append_to, prepend_to, insert_after or              *)
(*             insert_before was called (history)                          *)
(*   asked     instruction id -> the type build_inst was called with       *)
(*             (history)                                                   *)
(*   last      the last call: its name, the unit and the position before   *)
(*             it (history)                                                *)
(* A panic ends the life of the builder.                                   *)
(***************************************************************************)
MaxBuilt == 2
MaxBuilderBlocks == 2

EmptyFunction ==
    [blocks |-> <<>>, insts |-> <<>>, dfg |-> <<>>, nextInst |-> 1, nextBlock |-> 1,
     panic |-> ""]

EmptyEntity ==
    [insts |-> <<>>, dfg |-> <<>>, results |-> <<>>, nextInst |-> 1, panic |-> ""]

FunctionBuilder_new ==
    [kind |-> "function", unit |-> EmptyFunction, pos |-> PosNone, selected |-> FALSE,
     asked |-> <<>>, last |-> [call |-> "new", before |-> EmptyFunction, pos |-> PosNone]]

EntityBuilder_new ==
    [kind |-> "entity", unit |-> EmptyEntity, pos |-> insert_at_end, selected |-> FALSE,
     asked |-> <<>>, last |-> [call |-> "new", before |-> EmptyEntity, pos |-> insert_at_end]]

\* What the instruction builder hands to build_inst in a function: the
\* instruction and its result type.
FunctionInsts ==
    {InstData("const_int", <<>>, <<>>, 0, "int"),
     InstData("add", <<>>, <<>>, 0, "int"),
     InstData("ret", <<>>, <<>>, 0, "void")}

\* What the instruction builder hands to build_inst in an entity: the opcode
\* and the computed result type.
EntityInsts ==
    {[op |-> "const_int", ty |-> int_ty],
     [op |-> "const_time", ty |-> time_ty],
     [op |-> "add", ty |-> int_ty],
     [op |-> "sig", ty |-> signal_ty(int_ty)],
     [op |-> "prb", ty |-> int_ty],
     [op |-> "con", ty |-> void_ty]}

BuilderIdle ==
    /\ unit = <<>> /\ pc = "idle" /\ modified = FALSE /\ start = <<>> /\ pre = <<>>
    /\ log = <<>> /\ rerun = 0

Called(name, b) ==
    [b EXCEPT !.last = [call |-> name, before |-> builder.unit, pos |-> builder.pos]]

BuilderAlive == builder.unit.panic = ""

BuilderRest == UNCHANGED <<tcm, opcode, driver, writer, printer, tool, linker, simp, regs, ids>>

BuilderInit ==
    /\ BuilderIdle
    /\ builder \in {FunctionBuilder_new, EntityBuilder_new}
    /\ opcode = <<>> /\ driver = <<>> /\ writer = <<>>
    /\ printer = <<>> /\ tool = <<>> /\ linker = <<>> /\ simp = <<>> /\ regs = <<>> /\ ids = <<>>

BuildInst ==
    /\ BuilderAlive
    /\ builder.unit.nextInst <= MaxBuilt
    /\ \/ /\ builder.kind = "function"
          /\ \E data \in FunctionInsts :
                builder' = Called("build_inst",
                    [builder EXCEPT !.unit = build_inst(@, builder.pos, data),
                                    !.asked = (builder.unit.nextInst :> data.ty) @@ @])
       \/ /\ builder.kind = "entity"
          /\ \E i \in EntityInsts :
                builder' = Called("build_inst",
                    [builder EXCEPT !.unit = entity_build_inst(@, builder.pos, [op |-> i.op], i.ty),
                                    !.asked = (builder.unit.nextInst :> i.ty) @@ @])
    /\ BuilderRest

RemoveInst ==
    /\ BuilderAlive
    /\ \E inst \in DOMAIN builder.unit.dfg :
          builder' = Called("remove_inst",
              [builder EXCEPT !.unit = IF builder.kind = "function" THEN remove_inst(@, inst)
                                       ELSE entity_remove_inst(@, inst)])
    /\ BuilderRest

Block ==
    /\ BuilderAlive
    /\ builder.kind = "function" => builder.unit.nextBlock <= MaxBuilderBlocks
    /\ builder' = Called("block",
          [builder EXCEPT !.unit = IF builder.kind = "function" THEN block(@)
                                   ELSE panic(@, "block() called on entity")])
    /\ BuilderRest

InsertAtEnd ==
    /\ BuilderAlive
    /\ builder' = Called("insert_at_end",
          IF builder.kind = "function"
          THEN [builder EXCEPT !.unit = panic(@, "insert_at_end() called on function")]
          ELSE [builder EXCEPT !.pos = insert_at_end])
    /\ BuilderRest

InsertAtBeginning ==
    /\ BuilderAlive
    /\ builder' = Called("insert_at_beginning",
          IF builder.kind = "function"
          THEN [builder EXCEPT !.unit = panic(@, "insert_at_beginning() called on function")]
          ELSE [builder EXCEPT !.pos = insert_at_beginning])
    /\ BuilderRest

AppendTo ==
    /\ BuilderAlive
    /\ \E bb \in 1..MaxBuilderBlocks :
          builder' = Called("append_to",
              IF builder.kind = "function"
              THEN [builder EXCEPT !.pos = append_to(bb), !.selected = TRUE]
              ELSE [builder EXCEPT !.unit = panic(@, "append_to() called on entity")])
    /\ BuilderRest

PrependTo ==
    /\ BuilderAlive
    /\ \E bb \in 1..MaxBuilderBlocks :
          builder' = Called("prepend_to",
              IF builder.kind = "function"
              THEN [builder EXCEPT !.pos = prepend_to(bb), !.selected = TRUE]
              ELSE [builder EXCEPT !.unit = panic(@, "prepend_to() called on entity")])
    /\ BuilderRest

InsertAfter ==
    /\ BuilderAlive
    /\ \E inst \in 1..(builder.unit.nextInst - 1) :
          builder' = Called("insert_after",
              [builder EXCEPT !.pos = insert_after(inst), !.selected = TRUE])
    /\ BuilderRest

InsertBefore ==
    /\ BuilderAlive
    /\ \E inst \in 1..(builder.unit.nextInst - 1) :
          builder' = Called("insert_before",
              [builder EXCEPT !.pos = insert_before(inst), !.selected = TRUE])
    /\ BuilderRest

BuilderNext ==
    \/ BuildInst
    \/ RemoveInst
    \/ Block
    \/ InsertAtEnd
    \/ InsertAtBeginning
    \/ AppendTo
    \/ PrependTo
    \/ InsertAfter
    \/ InsertBefore

BuilderSpec == BuilderInit /\ [][BuilderNext]_vars

(***************************************************************************)
(* C15.  Result types in an entity.  An instruction built through the      *)
(* entity builder with computed result type T has                          *)
(*   - no result value when T is void,                                     *)
(*   - a result of type T when T is a signal type (no second wrapping),    *)
(*   - a result of type T when its opcode is const_int or const_time,      *)
(*   - a result of type signal(T) in every other case.                     *)
(***************************************************************************)
LiftedAsClaimed(e, inst, T) ==
    IF is_void(T) THEN inst \notin DOMAIN e.results
    ELSE /\ inst \in DOMAIN e.results
         /\ e.results[inst] =
              IF is_signal(T) \/ is_const(e.dfg[inst].op) THEN T ELSE signal_ty(T)

C15_EntityResultLifting ==
    builder.kind = "entity" =>
        \A inst \in DOMAIN builder.unit.dfg :
            LiftedAsClaimed(builder.unit, inst, builder.asked[inst])

\* An entity that holds a constant, which kept its type, and a lifted
\* instruction.
C15_Witness ==
    /\ builder.kind = "entity"
    /\ \E c, l \in DOMAIN builder.unit.results :
          /\ is_const(builder.unit.dfg[c].op)
          /\ builder.unit.results[c] = builder.asked[c]
          /\ ~is_const(builder.unit.dfg[l].op)
          /\ builder.unit.results[l] = signal_ty(builder.asked[l])
    /\ C15_EntityResultLifting

(***************************************************************************)
(* C17.  Misuse of a builder.                                              *)
(*   - A function builder has no insertion position until append_to,       *)
(*     prepend_to, insert_after or insert_before is called, and build_inst *)
(*     panics while it has none.                                           *)
(*   - block, append_to and prepend_to panic on an entity builder.         *)
(*   - insert_at_end and insert_at_beginning panic on a function builder.  *)
(*   - A call that panics leaves the layout of the unit as it was.         *)
(***************************************************************************)
LayoutOf(kind, u) == IF kind = "function" THEN <<u.blocks, u.insts>> ELSE <<u.insts>>

NoPositionUntilSelected ==
    builder.kind = "function" => (builder.pos = PosNone <=> ~builder.selected)

BuildWithoutPositionPanics ==
    (builder.kind = "function" /\ builder.last.call = "build_inst"
        /\ builder.last.pos = PosNone) => builder.unit.panic # ""

EntityCallsPanic ==
    (builder.kind = "entity" /\ builder.last.call \in {"block", "append_to", "prepend_to"})
        => builder.unit.panic # ""

FunctionCallsPanic ==
    (builder.kind = "function"
        /\ builder.last.call \in {"insert_at_end", "insert_at_beginning"})
        => builder.unit.panic # ""

RejectedKeepsLayout ==
    builder.unit.panic # "" =>
        LayoutOf(builder.kind, builder.unit) = LayoutOf(builder.kind, builder.last.before)

C17_MisuseRejected ==
    /\ NoPositionUntilSelected
    /\ BuildWithoutPositionPanics
    /\ EntityCallsPanic
    /\ FunctionCallsPanic
    /\ RejectedKeepsLayout

\* A function builder with a block and no position was asked to build an
\* instruction.
C17_Witness ==
    /\ builder.kind = "function"
    /\ builder.last.call = "build_inst"
    /\ builder.last.pos = PosNone
    /\ Len(builder.last.before.blocks) > 0
    /\ builder.unit.panic # ""
    /\ DOMAIN builder.unit.dfg # DOMAIN builder.last.before.dfg
    /\ C17_MisuseRejected

(***************************************************************************)
(* Opcodes and the kinds of unit they may appear in (ir/inst.rs).          *)
(* `opcode` is a record: the opcode `op` and, for each kind of unit, the   *)
(* answer of valid_in_<kind>, or "?" while it was not asked.               *)
(***************************************************************************)
Opcode ==
    {"const_int", "const_time", "alias", "array_uniform", "array", "struct",
     "not", "neg", "add", "sub", "and", "or", "xor",
     "smul", "sdiv", "smod", "srem", "umul", "udiv", "umod", "urem",
     "eq", "neq", "slt", "sgt", "sle", "sge", "ult", "ugt", "ule", "uge",
     "shl", "shr", "mux", "reg", "ins_field", "ins_slice", "ext_field", "ext_slice",
     "con", "del", "call", "inst", "sig", "drv", "prb", "var", "ld", "st",
     "halt", "ret", "ret_value", "br", "br_cond", "wait", "wait_time"}

FUNCTION == {"function"}
PROCESS == {"process"}
ENTITY == {"entity"}
ALL == {"function", "process", "entity"}

valid_in(op) ==
    CASE op = "halt" -> PROCESS
      [] op \in {"ret", "ret_value"} -> FUNCTION
      [] op \in {"br", "br_cond"} -> FUNCTION \cup PROCESS
      [] op = "con" -> ENTITY
      [] op = "del" -> ENTITY
      [] op = "reg" -> ENTITY
      [] OTHER -> ALL

valid_in_function(op) == FUNCTION \subseteq valid_in(op)
valid_in_process(op) == PROCESS \subseteq valid_in(op)
valid_in_entity(op) == ENTITY \subseteq valid_in(op)

OpcodeRest == UNCHANGED <<tcm, builder, driver, writer, printer, tool, linker, simp, regs, ids>>

OpcodeInit ==
    /\ BuilderIdle
    /\ opcode \in [op : Opcode, function : {"?"}, process : {"?"}, entity : {"?"}]
    /\ builder = <<>> /\ driver = <<>> /\ writer = <<>>
    /\ printer = <<>> /\ tool = <<>> /\ linker = <<>> /\ simp = <<>> /\ regs = <<>> /\ ids = <<>>

ValidInFunction ==
    /\ opcode.function = "?"
    /\ opcode' = [opcode EXCEPT !.function = IF valid_in_function(opcode.op) THEN "yes" ELSE "no"]
    /\ OpcodeRest

ValidInProcess ==
    /\ opcode.process = "?"
    /\ opcode' = [opcode EXCEPT !.process = IF valid_in_process(opcode.op) THEN "yes" ELSE "no"]
    /\ OpcodeRest

ValidInEntity ==
    /\ opcode.entity = "?"
    /\ opcode' = [opcode EXCEPT !.entity = IF valid_in_entity(opcode.op) THEN "yes" ELSE "no"]
    /\ OpcodeRest

OpcodeNext == ValidInFunction \/ ValidInProcess \/ ValidInEntity

OpcodeSpec == OpcodeInit /\ [][OpcodeNext]_vars

(***************************************************************************)
(* C16.  Opcodes and unit kinds.                                           *)
(*   - valid_in_function is false for wait, wait_time, halt, con, del, reg *)
(*     and drv, and true for ret, ret_value, br and br_cond.               *)
(*   - valid_in_process is false for ret, ret_value, con, del and reg, and *)
(*     true for wait, wait_time, halt, br, br_cond, prb and drv.           *)
(*   - con, del and reg are valid in entities and nowhere else.            *)
(*   - No terminator is valid in an entity.                                *)
(***************************************************************************)
Answers(field, yes, no) ==
    /\ opcode.op \in yes => field \in {"?", "yes"}
    /\ opcode.op \in no => field \in {"?", "no"}

C16_OpcodeUnitKinds ==
    /\ Answers(opcode.function,
               {"ret", "ret_value", "br", "br_cond"},
               {"wait", "wait_time", "halt", "con", "del", "reg", "drv"})
    /\ Answers(opcode.process,
               {"wait", "wait_time", "halt", "br", "br_cond", "prb", "drv"},
               {"ret", "ret_value", "con", "del", "reg"})
    /\ Answers(opcode.entity,
               {"con", "del", "reg"},
               {op \in Opcode : is_terminator(op)})

(***************************************************************************)
(* Pass::run_on_module (opt/pass.rs): a parallel map over the units of a   *)
(* module, reduced with a logical or.                                      *)
(* `driver` is a record                                                    *)
(*   units     the units of the module, each a record                      *)
(*               kind     "data" for a defined unit, "decl" for a          *)
(*                        declaration                                      *)
(*               changes  what run_on_unit returns for the unit            *)
(*               state    "todo", "running" or "done"                      *)
(*               runs     how often run_on_unit was started on the unit    *)
(*                        (history)                                        *)
(*   partial   the results that wait to be reduced: how many are true and  *)
(*             how many are false                                          *)
(*   order     the units in the order in which their task finished         *)
(*             (history)                                                   *)
(*   returned  "?" while the call runs, then "true" or "false"             *)
(* The parallel iterator hands every unit to one task; the tasks run in    *)
(* any order and interleaving, and the results are reduced in any order.   *)
(***************************************************************************)
MaxUnits == 3

ModUnits ==
    {[kind |-> "decl", changes |-> FALSE, state |-> "todo", runs |-> 0]}
    \cup [kind : {"data"}, changes : BOOLEAN, state : {"todo"}, runs : {0}]

\* Pass::run_on_unit decides for itself; here the unit carries the answer.
run_on_unit(u) == u.changes

\* The closure of the parallel map.
map_unit(u) == IF u.kind = "data" THEN run_on_unit(u) ELSE FALSE

\* A reduction that lets the last result win.
reduce_last(a, b) == b

\* The closure of the reduction.
reduce_or(a, b) == a \/ b

AddPartial(p, r) == IF r THEN [p EXCEPT !.t = @ + 1] ELSE [p EXCEPT !.f = @ + 1]

TakePartial(p, r) == IF r THEN [p EXCEPT !.t = @ - 1] ELSE [p EXCEPT !.f = @ - 1]

HasPartials(p, a, b) ==
    IF a = b THEN (IF a THEN p.t ELSE p.f) >= 2
    ELSE p.t >= 1 /\ p.f >= 1

ModuleRest == UNCHANGED <<tcm, builder, opcode, writer, printer, tool, linker, simp, regs, ids>>

ModuleInit ==
    /\ BuilderIdle
    /\ \E n \in 0..MaxUnits :
          driver \in [units : [1..n -> ModUnits], partial : {[t |-> 0, f |-> 0]},
                      order : {<<>>}, returned : {"?"}]
    /\ builder = <<>> /\ opcode = <<>> /\ writer = <<>>
    /\ printer = <<>> /\ tool = <<>> /\ linker = <<>> /\ simp = <<>> /\ regs = <<>> /\ ids = <<>>

\* A task enters run_on_unit on a defined unit.
StartUnit ==
    /\ \E i \in DOMAIN driver.units :
          /\ driver.units[i].kind = "data"
          /\ driver.units[i].state = "todo"
          /\ driver' = [driver EXCEPT !.units[i].state = "running",
                                      !.units[i].runs = @ + 1]
    /\ ModuleRest

\* run_on_unit returns.
FinishUnit ==
    /\ \E i \in DOMAIN driver.units :
          /\ driver.units[i].state = "running"
          /\ driver' = [driver EXCEPT !.units[i].state = "done",
                                      !.partial = AddPartial(@, map_unit(driver.units[i])),
                                      !.order = Append(@, i)]
    /\ ModuleRest

\* The map of a declaration.
SkipDeclaration ==
    /\ \E i \in DOMAIN driver.units :
          /\ driver.units[i].kind = "decl"
          /\ driver.units[i].state = "todo"
          /\ driver' = [driver EXCEPT !.units[i].state = "done",
                                      !.partial = AddPartial(@, map_unit(driver.units[i])),
                                      !.order = Append(@, i)]
    /\ ModuleRest

\* Two results are combined.
Reduce ==
    /\ driver.returned = "?"
    /\ \E a, b \in BOOLEAN :
          /\ HasPartials(driver.partial, a, b)
          /\ driver' = [driver EXCEPT !.partial =
                            AddPartial(TakePartial(TakePartial(@, a), b), reduce_or(a, b))]
    /\ ModuleRest

\* The call returns the last result, or the identity `false` of the
\* reduction when the module has no units.
Return ==
    /\ driver.returned = "?"
    /\ \A i \in DOMAIN driver.units : driver.units[i].state = "done"
    /\ driver.partial.t + driver.partial.f <= 1
    /\ driver' = [driver EXCEPT !.returned = IF reduce_or(FALSE, driver.partial.t = 1)
                                             THEN "true" ELSE "false",
                                !.partial = [t |-> 0, f |-> 0]]
    /\ ModuleRest

ModuleNext == StartUnit \/ FinishUnit \/ SkipDeclaration \/ Reduce \/ Return

ModuleSpec == ModuleInit /\ [][ModuleNext]_vars

(***************************************************************************)
(* C18.  The parallel pass driver.                                         *)
(*   - run_on_unit is never started twice on a unit, and never on a        *)
(*     declaration; when the call has returned it was started exactly once *)
(*     on every defined unit.                                              *)
(*   - The call returns true exactly if run_on_unit returned true for some *)
(*     defined unit, in whatever order the units were processed.           *)
(***************************************************************************)
OnceEach ==
    \A i \in DOMAIN driver.units :
        /\ driver.units[i].runs <= (IF driver.units[i].kind = "data" THEN 1 ELSE 0)
        /\ driver.returned # "?" =>
              driver.units[i].runs = (IF driver.units[i].kind = "data" THEN 1 ELSE 0)

SomeUnitChanged ==
    \E i \in DOMAIN driver.units :
        driver.units[i].kind = "data" /\ run_on_unit(driver.units[i])

C18_ParallelDriver ==
    /\ OnceEach
    /\ driver.returned = "true" => SomeUnitChanged
    /\ driver.returned = "false" => ~SomeUnitChanged

\* A module of a changed unit, an unchanged unit and a declaration, where
\* the changed unit finished first and the call returned true.
C18_Witness ==
    /\ Len(driver.units) = 3
    /\ Len(driver.order) = 3
    /\ \E i, j, k \in DOMAIN driver.units :
          /\ driver.units[i].kind = "data" /\ driver.units[i].changes
          /\ driver.units[j].kind = "data" /\ ~driver.units[j].changes
          /\ driver.units[k].kind = "decl"
          /\ driver.order[1] = i
          /\ i > j
    /\ driver.returned = "true"
    /\ C18_ParallelDriver

(***************************************************************************)
(* The assembly writer and its names (assembly.rs).                        *)
(* `writer` is a record                                                    *)
(*   name_table  value id -> the name the value was given                  *)
(*   name_stack  the namespaces, the module's first; each has the counter  *)
(*               `index` of unnamed values and the counters `names` of the *)
(*               names met                                                 *)
(*   values      value id -> the value: its optional name (<<>> or         *)
(*               <<name>>), whether it is global, and the unit it was      *)
(*               first met in (history)                                    *)
(*   units       how many units were entered (history)                     *)
(*   last        the id and the result of the last call of uniquify        *)
(*               (history)                                                 *)
(* The visitor enters a unit with push, asks for names of the unit's       *)
(* arguments, blocks, instructions and operands, and leaves with pop.      *)
(***************************************************************************)
MaxValues == 3
MaxWrittenUnits == 2

ValueNames == {<<>>, <<"x">>, <<"x0">>, <<"0">>}

Writer_new ==
    [name_table |-> <<>>, name_stack |-> <<[index |-> 0, names |-> <<>>]>>,
     values |-> <<>>, units |-> 0, last |-> [id |-> 0, name |-> ""]]

\* The counter of a name in the namespaces below the top one, the nearest
\* first; -1 when there is none.
RECURSIVE name_stack_find(_, _, _)
name_stack_find(stack, k, name) ==
    IF k = 0 THEN -1
    ELSE IF name \in DOMAIN stack[k].names THEN stack[k].names[name]
    ELSE name_stack_find(stack, k - 1, name)

\* Writer::uniquify_name: the name and the writer after the call.
uniquify_name(w, name, global) ==
    LET prefix == IF global THEN "@" ELSE "%"
        top == Len(w.name_stack)
    IN IF name # <<>>
       THEN IF name[1] \in DOMAIN w.name_stack[top].names
            THEN [n |-> prefix \o name[1] \o ToString(w.name_stack[top].names[name[1]]),
                  w |-> [w EXCEPT !.name_stack[top].names[name[1]] = @ + 1]]
            ELSE LET index == name_stack_find(w.name_stack, top - 1, name[1])
                 IN [n |-> IF index >= 0 THEN prefix \o name[1] \o ToString(index)
                           ELSE prefix \o name[1],
                     w |-> [w EXCEPT !.name_stack[top].names =
                               (name[1] :> (IF index >= 0 THEN index ELSE 0)) @@ @]]
       ELSE [n |-> "%" \o ToString(w.name_stack[top].index),
             w |-> [w EXCEPT !.name_stack[top].index = @ + 1]]

\* Writer::uniquify: the name and the writer after the call.
uniquify(w, id, value) ==
    IF id \in DOMAIN w.name_table THEN [n |-> w.name_table[id], w |-> w]
    ELSE LET r == uniquify_name(w, value.name, value.global)
         IN [n |-> r.n, w |-> [r.w EXCEPT !.name_table = (id :> r.n) @@ @]]

push(w) ==
    [w EXCEPT !.name_stack =
        Append(@, [index |-> @[Len(@)].index, names |-> <<>>])]

pop(w) == [w EXCEPT !.name_stack = SubSeq(@, 1, Len(@) - 1)]

WriterRest == UNCHANGED <<tcm, builder, opcode, driver, printer, tool, linker, simp, regs, ids>>

WriterInit ==
    /\ BuilderIdle
    /\ writer = Writer_new
    /\ builder = <<>> /\ opcode = <<>> /\ driver = <<>>
    /\ printer = <<>> /\ tool = <<>> /\ linker = <<>> /\ simp = <<>> /\ regs = <<>> /\ ids = <<>>

\* visit_function, visit_process, visit_entity: the unit is entered.
EnterUnit ==
    /\ Len(writer.name_stack) = 1
    /\ writer.units < MaxWrittenUnits
    /\ writer' = [push(writer) EXCEPT !.units = @ + 1]
    /\ WriterRest

\* The end of visit_function, visit_process, visit_entity.
LeaveUnit ==
    /\ Len(writer.name_stack) = 2
    /\ writer' = pop(writer)
    /\ WriterRest

\* A value of the unit is met for the first time.
UniquifyNew ==
    /\ Len(writer.name_stack) = 2
    /\ Cardinality(DOMAIN writer.values) < MaxValues
    /\ \E name \in ValueNames, global \in BOOLEAN :
          LET id == Cardinality(DOMAIN writer.values) + 1
              value == [name |-> name, global |-> global, unit |-> writer.units]
              r == uniquify(writer, id, value)
          IN writer' = [r.w EXCEPT !.values = (id :> value) @@ @,
                                   !.last = [id |-> id, name |-> r.n]]
    /\ WriterRest

\* A value of the unit is met again.
UniquifyAgain ==
    /\ Len(writer.name_stack) = 2
    /\ \E id \in DOMAIN writer.values :
          /\ writer.values[id].unit = writer.units
          /\ LET r == uniquify(writer, id, writer.values[id])
             IN writer' = [r.w EXCEPT !.last = [id |-> id, name |-> r.n]]
    /\ WriterRest

WriterNext == EnterUnit \/ LeaveUnit \/ UniquifyNew \/ UniquifyAgain

WriterSpec == WriterInit /\ [][WriterNext]_vars

(***************************************************************************)
(* C19.  Numbering of colliding names.  Of the values of one unit that     *)
(* carry the same name x, the first one met is written x, the second x1,   *)
(* the third x2, and so on, behind the prefix of the value; the unnamed    *)
(* values of a unit are written %0, %1, ... in the order they are met.     *)
(***************************************************************************)
\* How many values of the same unit and name were met before the value.
MetBefore(id) ==
    Cardinality({j \in DOMAIN writer.values :
        /\ j < id
        /\ writer.values[j].unit = writer.values[id].unit
        /\ writer.values[j].name = writer.values[id].name})

ClaimedName(id) ==
    LET v == writer.values[id]
        k == MetBefore(id)
    IN IF v.name = <<>> THEN "%" \o ToString(k)
       ELSE (IF v.global THEN "@" ELSE "%") \o v.name[1]
                \o (IF k = 0 THEN "" ELSE ToString(k))

C19_SuffixNumbering ==
    \A id \in DOMAIN writer.values : writer.name_table[id] = ClaimedName(id)

(***************************************************************************)
(* C20.  Names are unique and stable.  Two values of one unit never have   *)
(* the same name, and asking for the name of a value again gives the name  *)
(* it was given first.                                                     *)
(***************************************************************************)
UniqueInUnit ==
    \A i, j \in DOMAIN writer.values :
        (i # j /\ writer.values[i].unit = writer.values[j].unit)
            => writer.name_table[i] # writer.name_table[j]

StableName ==
    writer.last.id # 0 => writer.last.name = writer.name_table[writer.last.id]

C20_UniqueStable == UniqueInUnit /\ StableName

(***************************************************************************)
(* C25.  Tail instructions and tail blocks.  In every region of the graph  *)
(* that TemporalRegionGraph::new returns, each tail instruction is the     *)
(* terminator of a tail block of the region, and the terminator of each    *)
(* block of the region that ends in a wait is a tail instruction, whatever *)
(* the region of the block the wait resumes in.                            *)
(***************************************************************************)
TailInstsOfTailBlocks(u, r) ==
    \A i \in r.tail_insts : \E bb \in r.tail_blocks : terminator(u, bb) = i

WaitsAreTailInsts(u, r) ==
    \A bb \in r.blocks :
        is_temporal(u.dfg[terminator(u, bb)].op) => terminator(u, bb) \in r.tail_insts

TailsConsistent(u, trg) ==
    \A id \in DOMAIN trg.regions :
        TailInstsOfTailBlocks(u, trg.regions[id]) /\ WaitsAreTailInsts(u, trg.regions[id])

C25_TailInstsConsistent ==
    TemporalRegionGraph_new(unit).ok => TailsConsistent(unit, TemporalRegionGraph_new(unit))

(***************************************************************************)
(* C26.  Block structure.  After each step of temporal code motion on a    *)
(* process whose blocks each end in their one terminator, and so when the  *)
(* pass has run to its end, every block of the process, those the pass     *)
(* created included, ends in its one terminator, and every target of a     *)
(* branch or wait is a block of the layout.                                *)
(***************************************************************************)
TargetsInLayout(u) ==
    \A i \in AllInsts(u) : Range(u.dfg[i].bbs) \subseteq Range(u.blocks)

C26_BlockStructure ==
    (pc \in {"hoisted", "fused", "auxed", "done", "stopped"} /\ BlocksTerminated(start))
        => BlocksTerminated(unit) /\ TargetsInLayout(unit)

\* The pass has run to its end and has created an auxiliary block, which
\* holds a branch only, and has moved a drive.
C26_Witness ==
    /\ pc = "done"
    /\ BlocksTerminated(start)
    /\ \E bb \in Range(unit.blocks) \ Range(start.blocks) :
          /\ Len(unit.insts[bb]) = 1
          /\ unit.dfg[terminator(unit, bb)].op = "br"
    /\ \E k \in DOMAIN log : log[k].moved
    /\ C26_BlockStructure

(***************************************************************************)
(* The textual form of types (ty.rs).  A type is a record                  *)
(*   kind  the variant of TypeKind                                         *)
(*   n     the width of an integer, the number of states of an enum, the   *)
(*         length of an array; 0 otherwise                                 *)
(*   args  the inner type of a pointer, signal or array, the fields of a   *)
(*         struct, the arguments of a function, the inputs of an entity    *)
(*   ret   the return type of a function (one element), the outputs of an  *)
(*         entity                                                          *)
(***************************************************************************)
TypeKind(kind, n, args, ret) == [kind |-> kind, n |-> n, args |-> args, ret |-> ret]

VoidType == TypeKind("void", 0, <<>>, <<>>)
TimeType == TypeKind("time", 0, <<>>, <<>>)
IntType(l) == TypeKind("int", l, <<>>, <<>>)
EnumType(l) == TypeKind("enum", l, <<>>, <<>>)
PointerType(ty) == TypeKind("pointer", 0, <<ty>>, <<>>)
SignalType(ty) == TypeKind("signal", 0, <<ty>>, <<>>)
ArrayType(l, ty) == TypeKind("array", l, <<ty>>, <<>>)
StructType(tys) == TypeKind("struct", 0, tys, <<>>)
FuncType(args, ret) == TypeKind("func", 0, args, <<ret>>)
EntityType(ins, outs) == TypeKind("entity", 0, ins, outs)

\* The texts joined with a separator between them.
RECURSIVE write_implode(_, _)
write_implode(sep, texts) ==
    IF texts = <<>> THEN ""
    ELSE IF Len(texts) = 1 THEN texts[1]
    ELSE texts[1] \o sep \o write_implode(sep, Tail(texts))

\* Display for TypeKind.
RECURSIVE TypeDisplay(_)
TypeDisplay(ty) ==
    LET each(tys) == [k \in DOMAIN tys |-> TypeDisplay(tys[k])]
    IN CASE ty.kind = "void" -> "void"
         [] ty.kind = "time" -> "time"
         [] ty.kind = "int" -> "i" \o ToString(ty.n)
         [] ty.kind = "enum" -> "n" \o ToString(ty.n)
         [] ty.kind = "pointer" -> TypeDisplay(ty.args[1]) \o "*"
         [] ty.kind = "signal" -> TypeDisplay(ty.args[1]) \o "$"
         [] ty.kind = "array" ->
              "[" \o ToString(ty.n) \o " x " \o TypeDisplay(ty.args[1]) \o "]"
         [] ty.kind = "struct" -> "{" \o write_implode(", ", each(ty.args)) \o "}"
         [] ty.kind = "func" ->
              "(" \o write_implode(", ", each(ty.args)) \o ") " \o TypeDisplay(ty.ret[1])
         [] ty.kind = "entity" ->
              "(" \o write_implode(", ", each(ty.args)) \o ";"
                  \o write_implode(", ", each(ty.ret)) \o ")"

\* The types built from the given ones by one constructor.
TypesOver(S) ==
    {PointerType(t) : t \in S} \cup {SignalType(t) : t \in S}
    \cup {FuncType(args, t) : args \in {<<>>, <<IntType(1)>>}, t \in S}

BaseTypes ==
    {VoidType, TimeType, IntType(1), EnumType(2), ArrayType(2, IntType(1)),
     StructType(<<>>), StructType(<<IntType(1), VoidType>>),
     EntityType(<<>>, <<>>), EntityType(<<IntType(1)>>, <<IntType(1), IntType(1)>>)}

PrintedTypes == BaseTypes \cup TypesOver(BaseTypes) \cup TypesOver(TypesOver(BaseTypes))

(***************************************************************************)
(* The textual form of time constants (konst.rs).                          *)
(* A time constant is a record [num, den, k, delta, epsilon]: the physical *)
(* time is num / (den * 1000^k) seconds, a fraction in lowest terms with   *)
(* num < 1000 * den when k > 0 and den not a multiple of 1000, so that     *)
(* different records are different times.                                  *)
(*                                                                         *)
(* The ratio that write_ratio_as_si scales is kept as a record             *)
(*   int   its integer part at the time the first fractional digit was     *)
(*         asked for                                                       *)
(*   frac  the groups of three digits it was scaled by since               *)
(*   r     rest / den is what is left behind the last digit                *)
(*   k     the powers of 1000 it is still to be multiplied by before it    *)
(*         reaches int + rest / den                                        *)
(***************************************************************************)
RECURSIVE Gcd(_, _)
Gcd(a, b) == IF b = 0 THEN a ELSE Gcd(b, a % b)

ConstTime_new(num, den, k, delta, epsilon) ==
    [num |-> num, den |-> den, k |-> k, delta |-> delta, epsilon |-> epsilon]

ratio_new(t) ==
    [int |-> t.num \div t.den, r |-> t.num % t.den, den |-> t.den, k |-> t.k, frac |-> <<>>]

ratio_is_zero(x) == x.int = 0 /\ x.r = 0 /\ x.frac = <<>>

\* scaled >= 1
ratio_ge_one(x) == x.k = 0 /\ x.int >= 1

\* scaled.is_integer(), for a ratio that is at least 1
ratio_is_integer(x) == x.k = 0 /\ x.r = 0

\* scaled * 1000
ratio_times_1000(x) ==
    IF x.k > 0 THEN [x EXCEPT !.k = @ - 1]
    ELSE IF x.int >= 1
    THEN [x EXCEPT !.frac = Append(@, (1000 * x.r) \div x.den), !.r = (1000 * x.r) % x.den]
    ELSE [x EXCEPT !.int = (1000 * x.r) \div x.den, !.r = (1000 * x.r) % x.den]

\* One more in the last place of the digits.
RECURSIVE ratio_increment(_)
ratio_increment(x) ==
    IF x.frac = <<>> THEN [x EXCEPT !.int = @ + 1]
    ELSE IF x.frac[Len(x.frac)] < 999 THEN [x EXCEPT !.frac[Len(x.frac)] = @ + 1]
    ELSE LET up == ratio_increment([x EXCEPT !.frac = SubSeq(@, 1, Len(@) - 1)])
         IN [up EXCEPT !.frac = Append(@, 0)]

\* scaled.round(): to the nearest integer, a half away from zero.
ratio_round(x) ==
    IF x.k > 1 THEN [x EXCEPT !.int = 0, !.r = 0, !.k = 0]
    ELSE IF x.k = 1
    THEN [x EXCEPT !.int = IF 2 * (x.int * x.den + x.r) >= 1000 * x.den THEN 1 ELSE 0,
                   !.r = 0, !.k = 0]
    ELSE IF 2 * x.r >= x.den THEN [ratio_increment(x) EXCEPT !.r = 0]
    ELSE [x EXCEPT !.r = 0]

prefices == <<"", "m", "u", "n", "p", "f", "a">>

\* The loop of write_ratio_as_si from `prefix` and `shift` on.
RECURSIVE ratio_scale(_, _, _)
ratio_scale(scaled, prefix, shift) ==
    IF ~(prefix + 1 < Len(prefices) /\ shift < 9)
    THEN [scaled |-> scaled, prefix |-> prefix, shift |-> shift]
    ELSE IF ratio_ge_one(scaled)
    THEN IF ratio_is_integer(scaled)
         THEN [scaled |-> scaled, prefix |-> prefix, shift |-> shift]
         ELSE ratio_scale(ratio_times_1000(scaled), prefix, shift + 3)
    ELSE ratio_scale(ratio_times_1000(scaled), prefix + 1, shift)

\* Three digits of a group.
Digits3(n) ==
    IF n < 10 THEN "00" \o ToString(n) ELSE IF n < 100 THEN "0" \o ToString(n) ELSE ToString(n)

RECURSIVE GroupDigits(_)
GroupDigits(frac) == IF frac = <<>> THEN "" ELSE Digits3(Head(frac)) \o GroupDigits(Tail(frac))

\* The text of a scaled and rounded ratio: the digits, with a point in front
\* of the last `shift` ones, the prefix and "s".
ratio_text(rounded, prefix, shift) ==
    IF shift > 0
    THEN ToString(rounded.int) \o "." \o GroupDigits(rounded.frac) \o prefices[prefix + 1] \o "s"
    ELSE ToString(rounded.int) \o GroupDigits(rounded.frac) \o prefices[prefix + 1] \o "s"

write_ratio_as_si(ratio) ==
    IF ratio_is_zero(ratio) THEN "0s"
    ELSE LET sc == ratio_scale(ratio, 0, 0)
         IN ratio_text(ratio_round(sc.scaled), sc.prefix, sc.shift)

\* Display for ConstTime.
ConstTimeDisplay(t) ==
    write_ratio_as_si(ratio_new(t))
        \o (IF t.delta # 0 THEN " " \o ToString(t.delta) \o "d" ELSE "")
        \o (IF t.epsilon # 0 THEN " " \o ToString(t.epsilon) \o "e" ELSE "")

MaxTimePower == 7

PrintedTimes ==
    {t \in [num : {0, 1, 2, 3, 5}, den : {1, 2, 3, 10}, k : 0..MaxTimePower,
            delta : {0, 1}, epsilon : {0, 1}] :
        /\ Gcd(t.num, t.den) = 1
        /\ t.k > 0 => (t.num % 2 # 0 /\ t.num % 5 # 0)}

(***************************************************************************)
(* Printing.  `printer` is a record                                        *)
(*   what    "type" or "time"                                              *)
(*   a, b    two different types, or two different time constants          *)
(*   ta, tb  their textual forms, "?" until they are printed               *)
(***************************************************************************)
OthersIdle ==
    /\ BuilderIdle
    /\ builder = <<>> /\ opcode = <<>> /\ driver = <<>> /\ writer = <<>>

PrintRest == UNCHANGED <<tcm, builder, opcode, driver, writer, tool, linker, simp, regs, ids>>

PrintInit ==
    /\ OthersIdle
    /\ \/ printer \in {x \in [what : {"type"}, a : PrintedTypes, b : PrintedTypes,
                                ta : {"?"}, tb : {"?"}] : x.a # x.b}
       \/ printer \in {x \in [what : {"time"}, a : PrintedTimes, b : PrintedTimes,
                                ta : {"?"}, tb : {"?"}] : x.a # x.b}
    /\ tool = <<>> /\ linker = <<>> /\ simp = <<>> /\ regs = <<>> /\ ids = <<>>

DisplayType ==
    /\ printer.what = "type"
    /\ \/ /\ printer.ta = "?"
          /\ printer' = [printer EXCEPT !.ta = TypeDisplay(printer.a)]
       \/ /\ printer.tb = "?"
          /\ printer' = [printer EXCEPT !.tb = TypeDisplay(printer.b)]
    /\ PrintRest

DisplayTime ==
    /\ printer.what = "time"
    /\ \/ /\ printer.ta = "?"
          /\ printer' = [printer EXCEPT !.ta = ConstTimeDisplay(printer.a)]
       \/ /\ printer.tb = "?"
          /\ printer' = [printer EXCEPT !.tb = ConstTimeDisplay(printer.b)]
    /\ PrintRest

PrintNext == DisplayType \/ DisplayTime

PrintSpec == PrintInit /\ [][PrintNext]_vars

(***************************************************************************)
(* C21.  Printing is injective, as a round trip through the textual form   *)
(* needs it to be: two different types have different texts, and two       *)
(* different time constants have different texts.                          *)
(***************************************************************************)
C21_PrintInjective ==
    (printer.ta # "?" /\ printer.tb # "?") => printer.ta # printer.tb

(***************************************************************************)
(* C22.  The text of a time constant.                                      *)
(*   - A physical time of zero is written 0s.                              *)
(*   - A physical time that is a whole number of one of the units s, ms,   *)
(*     us, ns, ps, fs, as is written as that number of the largest such    *)
(*     unit.                                                               *)
(*   - Any other time is written with at most 9 digits behind the point;   *)
(*     a third of a second is written 333.333333333ms.                     *)
(*   - " 1d" follows when delta is 1, then " 1e" when epsilon is 1, and    *)
(*     nothing follows for a delta or epsilon of 0.                        *)
(***************************************************************************)
\* The powers of 1000 after which the fraction num / den is whole; -1 when
\* it never is.
WholeAfter(t) ==
    IF t.num % t.den = 0 THEN 0
    ELSE IF (1000 * t.num) % t.den = 0 THEN 1
    ELSE IF (1000000 * t.num) % t.den = 0 THEN 2
    ELSE -1

IsWholeInSomeUnit(t) == WholeAfter(t) >= 0 /\ t.k + WholeAfter(t) <= 6

Power1000(m) == CASE m = 0 -> 1 [] m = 1 -> 1000 [] m = 2 -> 1000000

ClaimedRatioText(t) ==
    IF t.num = 0 THEN "0s"
    ELSE ToString((Power1000(WholeAfter(t)) * t.num) \div t.den)
            \o prefices[t.k + WholeAfter(t) + 1] \o "s"

ClaimedSuffix(t) ==
    (IF t.delta # 0 THEN " " \o ToString(t.delta) \o "d" ELSE "")
        \o (IF t.epsilon # 0 THEN " " \o ToString(t.epsilon) \o "e" ELSE "")

FormattedAsClaimed(t, text) ==
    IF IsWholeInSomeUnit(t) THEN text = ClaimedRatioText(t) \o ClaimedSuffix(t)
    ELSE /\ ratio_scale(ratio_new(t), 0, 0).shift <= 9
         /\ text = write_ratio_as_si(ratio_new(t)) \o ClaimedSuffix(t)
         /\ (t.num = 1 /\ t.den = 3 /\ t.k = 0)
               => text = "333.333333333ms" \o ClaimedSuffix(t)

C22_TimeFormatting ==
    (printer.what = "time" /\ printer.ta # "?") => FormattedAsClaimed(printer.a, printer.ta)

(***************************************************************************)
(* llhd-check (bin/llhd-check.rs).  A file is known by the first stage it  *)
(* fails at: "open", "read", "parse", "verify", or "none".  `tool` is a    *)
(* record                                                                  *)
(*   done        how many input files were processed                       *)
(*   num_errors  the counter of main                                       *)
(*   fails       the stage the last file failed at (history)               *)
(*   verified    whether the verifier ran on the last file (history)       *)
(*   printed     the lines printed for the last file (history)             *)
(*   failed      how many of the processed files had an error (history)    *)
(*   status      -1 while main runs, then the exit status of the process   *)
(***************************************************************************)
MaxFiles == 256

\* The exit status of a process is the low 8 bits of the code it exits with.
ExitStatusRange == 256

Stages == {"open", "read", "parse", "verify", "none"}

\* check(path): whether the verifier ran, and the result.
check(fails) ==
    CASE fails = "open" -> [verified |-> FALSE, err |-> <<"cannot open">>]
      [] fails = "read" -> [verified |-> FALSE, err |-> <<"cannot read">>]
      [] fails = "parse" -> [verified |-> FALSE, err |-> <<"parse error">>]
      [] fails = "verify" -> [verified |-> TRUE, err |-> <<"verifier errors">>]
      [] OTHER -> [verified |-> TRUE, err |-> <<>>]

\* The body of the loop of main for the file at position `path`.
main_step(t, path, fails) ==
    LET result == check(fails)
    IN [t EXCEPT !.done = path,
                 !.num_errors = IF result.err = <<>> THEN @ ELSE @ + 1,
                 !.printed = IF result.err = <<>> THEN <<>>
                             ELSE <<ToString(path) \o ":", result.err[1]>>,
                 !.fails = fails,
                 !.verified = result.verified,
                 !.failed = IF fails = "none" THEN @ ELSE @ + 1]

\* std::process::exit(code), as the parent process sees it.
process_exit(code) == code % ExitStatusRange

ToolRest == UNCHANGED <<tcm, builder, opcode, driver, writer, printer, linker, simp, regs, ids>>

ToolInit ==
    /\ OthersIdle
    /\ tool = [done |-> 0, num_errors |-> 0, fails |-> "none", verified |-> FALSE,
               printed |-> <<>>, failed |-> 0, status |-> -1]
    /\ printer = <<>> /\ linker = <<>> /\ simp = <<>> /\ regs = <<>> /\ ids = <<>>

\* The next input file is checked.
CheckFile ==
    /\ tool.status = -1
    /\ tool.done < MaxFiles
    /\ \E fails \in Stages : tool' = main_step(tool, tool.done + 1, fails)
    /\ ToolRest

\* There are no more input files.
Exit ==
    /\ tool.status = -1
    /\ tool' = [tool EXCEPT !.status = process_exit(tool.num_errors)]
    /\ ToolRest

ToolNext == CheckFile \/ Exit

ToolSpec == ToolInit /\ [][ToolNext]_vars

(***************************************************************************)
(* C23.  The exit status of llhd-check.  For a file that fails, the file   *)
(* name followed by a colon is printed and then the error; for a file      *)
(* that passes nothing is printed; the verifier does not run on a file     *)
(* that cannot be opened, read or parsed; every file is processed, also    *)
(* after a failure; and the tool exits with the number of files that had   *)
(* an error.                                                               *)
(***************************************************************************)
PrintedAsClaimed ==
    IF tool.fails = "none" THEN tool.printed = <<>>
    ELSE /\ Len(tool.printed) = 2
         /\ tool.printed[1] = ToString(tool.done) \o ":"

VerifierAsClaimed == tool.fails \in {"open", "read", "parse"} => ~tool.verified

C23_ExitStatus ==
    /\ PrintedAsClaimed
    /\ VerifierAsClaimed
    /\ tool.status # -1 => tool.status = tool.failed

(***************************************************************************)
(* Module::link.  A unit name is a record [global, s]; a signature is      *)
(* known by its text.  A unit of a module is a record                      *)
(*   name, sig   the name and the signature of the unit                    *)
(*   declared    TRUE for a declaration, FALSE for a unit with a body      *)
(*   exts        the ExtUnits of the unit: records [name, sig, target],    *)
(*               where target is the ModUnit it is resolved to, 0 if none  *)
(* `linker` is a record                                                    *)
(*   units       the units of the module, in the order of their ModUnit    *)
(*   result      the outcome of link(): kind "none" before the call, then  *)
(*               "ok" or "error" with the unit, ext and reason of the      *)
(*               LinkError                                                 *)
(***************************************************************************)
MaxDeclared == 2
MaxDefined == 2
MaxExts == 2

UnitName_global(s) == [global |-> TRUE, s |-> s]
UnitName_local(s) == [global |-> FALSE, s |-> s]

\* The signatures of examples/module.rs.
func_sig == "(i32) i3"
proc_sig == "(i42$) -> (i9$)"
Signature_new == "()"

ExtUnitData(name, sig) == [name |-> name, sig |-> sig, target |-> 0]

\* The external units a unit under study may reference.
ExtChoices ==
    { ExtUnitData(UnitName_global("my_func"), func_sig),
      ExtUnitData(UnitName_global("my_proc"), proc_sig),
      ExtUnitData(UnitName_local("foo"), Signature_new) }

ExtLists == UNION { [1..n -> ExtChoices] : n \in 0..MaxExts }

declare(units, name, sig) ==
    Append(units, [name |-> name, sig |-> sig, declared |-> TRUE, exts |-> <<>>])

add_unit(units, name, sig, exts) ==
    Append(units, [name |-> name, sig |-> sig, declared |-> FALSE, exts |-> exts])

\* The module built by examples/module.rs.
ExampleModule ==
    LET m1 == declare(<<>>, UnitName_global("my_func"), func_sig)
        m2 == declare(m1, UnitName_global("my_proc"), proc_sig)
        m3 == add_unit(m2, UnitName_local("foo"), Signature_new,
                       <<ExtUnitData(UnitName_global("my_func"), func_sig)>>)
    IN add_unit(m3, UnitName_local("bar"), Signature_new,
                <<ExtUnitData(UnitName_global("my_proc"), proc_sig),
                  ExtUnitData(UnitName_local("foo"), Signature_new)>>)

\* A mutant: a unit of any name is eligible as a link target.
link_candidates_any(units, ext) ==
    { i \in DOMAIN units : units[i].name = ext.name }

\* The units an ExtUnit may be linked to: the name is global and matches.
link_candidates(units, ext) ==
    { i \in DOMAIN units : units[i].name.global /\ units[i].name = ext.name }

\* Why an ExtUnit cannot be resolved; "none" if it can.
link_reason(units, ext) ==
    LET c == link_candidates(units, ext)
    IN IF c = {} THEN "missing"
       ELSE IF Cardinality(c) > 1 THEN "ambiguous"
       ELSE IF units[CHOOSE i \in c : TRUE].sig # ext.sig THEN "signature-mismatch"
       ELSE "none"

link_resolve(units, ext) ==
    IF link_reason(units, ext) = "none"
    THEN [ext EXCEPT !.target = CHOOSE i \in link_candidates(units, ext) : TRUE]
    ELSE ext

\* The module with every resolvable ExtUnit of every local unit resolved.
link_resolved(units) ==
    [u \in DOMAIN units |->
        IF units[u].declared THEN units[u]
        ELSE [units[u] EXCEPT !.exts = [e \in DOMAIN @ |-> link_resolve(units, @[e])]]]

\* The LinkErrors of a module.
link_errors(units) ==
    { [kind |-> "error", unit |-> ue[1], ext |-> ue[2],
       reason |-> link_reason(units, units[ue[1]].exts[ue[2]])] :
        ue \in { x \in (DOMAIN units) \X (1..MaxExts) :
                    /\ ~units[x[1]].declared
                    /\ x[2] \in DOMAIN units[x[1]].exts
                    /\ link_reason(units, units[x[1]].exts[x[2]]) # "none" } }

NoResult == [kind |-> "none", unit |-> 0, ext |-> 0, reason |-> "none"]
LinkOk == [kind |-> "ok", unit |-> 0, ext |-> 0, reason |-> "none"]

NumDeclared(units) == Cardinality({ i \in DOMAIN units : units[i].declared })
NumDefined(units) == Cardinality({ i \in DOMAIN units : ~units[i].declared })

LinkRest == UNCHANGED <<tcm, builder, opcode, driver, writer, printer, tool, simp, regs, ids>>

LinkInit ==
    /\ OthersIdle
    /\ linker = [units |-> <<>>, result |-> NoResult]
    /\ printer = <<>> /\ tool = <<>> /\ simp = <<>> /\ regs = <<>> /\ ids = <<>>

\* The declarations of a module under study: @my_func as in the example,
\* @my_proc with the signature of the example or with another one.
Declarations ==
    { <<UnitName_global("my_func"), func_sig>>,
      <<UnitName_global("my_proc"), proc_sig>>,
      <<UnitName_global("my_proc"), func_sig>> }

\* The local name of the k-th unit with a body; %foo and %bar in the example.
LocalName(k) ==
    IF k = 1 THEN UnitName_local("foo")
    ELSE IF k = 2 THEN UnitName_local("bar")
    ELSE UnitName_local("u" \o ToString(k))

\* Module::declare.  The declarations of a module under study come first.
Declare ==
    /\ linker.result.kind = "none"
    /\ NumDeclared(linker.units) < MaxDeclared
    /\ NumDefined(linker.units) = 0
    /\ \E d \in Declarations :
          linker' = [linker EXCEPT !.units = declare(@, d[1], d[2])]
    /\ LinkRest

\* Module::add_unit: a unit with a local name and no inputs or outputs, as
\* in the example, or a definition of @my_proc.
AddUnit ==
    /\ linker.result.kind = "none"
    /\ NumDefined(linker.units) < MaxDefined
    /\ \E global \in BOOLEAN, exts \in ExtLists :
          linker' = [linker EXCEPT !.units =
              IF global
              THEN add_unit(@, UnitName_global("my_proc"), proc_sig, exts)
              ELSE add_unit(@, LocalName(NumDefined(linker.units) + 1),
                            Signature_new, exts)]
    /\ LinkRest

\* Module::link.  What a failed link() leaves resolved is not specified:
\* either nothing, or every reference that could be resolved.
Link ==
    /\ linker.result.kind = "none"
    /\ IF link_errors(linker.units) = {}
       THEN linker' = [units |-> link_resolved(linker.units), result |-> LinkOk]
       ELSE \E err \in link_errors(linker.units), partial \in BOOLEAN :
              linker' = [units |-> IF partial THEN link_resolved(linker.units)
                                   ELSE linker.units,
                         result |-> err]
    /\ LinkRest

LinkNext == Declare \/ AddUnit \/ Link

LinkSpec == LinkInit /\ [][LinkNext]_vars

(***************************************************************************)
(* C24.  Linking.  After link(), an ExtUnit is resolved only to a unit     *)
(* with a global name equal to the referenced name and a signature equal   *)
(* to the declared one; a successful link() has resolved every ExtUnit of  *)
(* every unit; link() reports a LinkError exactly when some reference is   *)
(* missing, ambiguous or of another signature; and in the module of the    *)
(* example the reference of %bar to the local %foo is not linked and       *)
(* link() reports it, whereas the references to @my_func and @my_proc are  *)
(* the ones the rule allows.                                               *)
(***************************************************************************)
ExtUnitsOf(units) ==
    { <<u, e>> \in (DOMAIN units) \X (1..MaxExts) : e \in DOMAIN units[u].exts }

ResolvedAsAllowed(units) ==
    \A ue \in ExtUnitsOf(units) :
        LET ext == units[ue[1]].exts[ue[2]]
        IN ext.target # 0 =>
              /\ ext.target \in DOMAIN units
              /\ units[ext.target].name = ext.name
              /\ units[ext.target].name.global
              /\ units[ext.target].sig = ext.sig

AllResolved(units) ==
    \A ue \in ExtUnitsOf(units) : units[ue[1]].exts[ue[2]].target # 0

\* A reference is allowed if exactly one unit has its name, that name is
\* global, and the signatures are equal.
Allowed(units, ext) ==
    /\ ext.name.global
    /\ Cardinality({ i \in DOMAIN units : units[i].name = ext.name }) = 1
    /\ \A i \in DOMAIN units : units[i].name = ext.name => units[i].sig = ext.sig

IsExample(units) ==
    /\ Len(units) = Len(ExampleModule)
    /\ \A i \in DOMAIN units :
          /\ units[i].name = ExampleModule[i].name
          /\ units[i].sig = ExampleModule[i].sig
          /\ units[i].declared = ExampleModule[i].declared
          /\ Len(units[i].exts) = Len(ExampleModule[i].exts)
          /\ \A e \in DOMAIN units[i].exts :
                /\ units[i].exts[e].name = ExampleModule[i].exts[e].name
                /\ units[i].exts[e].sig = ExampleModule[i].exts[e].sig

ArgType(v) ==
    CASE v = -1 -> "i8$"
      [] v = -2 -> "[2 x i8]$"
      [] OTHER -> "i1$"

value_type(u, v) == IF v < 0 THEN ArgType(v) ELSE u.dfg[v].ty

\* Option<Value>: 0 stands for None.
get_inst_result(u, inst) ==
    IF inst \in DOMAIN u.dfg /\ has_result(u, inst) THEN inst ELSE 0

\* Option<BigInt> as [some, imm].
get_const_int(u, v) ==
    IF v > 0 /\ v \in DOMAIN u.dfg /\ u.dfg[v].op = "const_int"
    THEN [some |-> TRUE, imm |-> u.dfg[v].imm]
    ELSE [some |-> FALSE, imm |-> 0]

\* The number of operands that are the value `from`.
use_count(u, from) ==
    LET slots == { <<i, k>> \in (DOMAIN u.dfg) \X (1..4) :
                      k \in DOMAIN u.dfg[i].args /\ u.dfg[i].args[k] = from }
    IN Cardinality(slots)

replace_use(u, from, to) ==
    [u EXCEPT !.dfg = [i \in DOMAIN @ |->
        [@[i] EXCEPT !.args = [k \in DOMAIN @ |-> IF @[k] = from THEN to ELSE @[k]]]]]

\* The instructions of the layout, block by block.
RECURSIVE all_insts_from(_, _)
all_insts_from(u, k) ==
    IF k > Len(u.blocks) THEN <<>>
    ELSE u.insts[u.blocks[k]] \o all_insts_from(u, k + 1)

all_insts(u) == all_insts_from(u, 1)

\* InstBuilder::const_zero for an integer type.
const_zero(ty) == InstData("const_int", <<>>, <<>>, 0, ty)

NoReplace == [from |-> 0, to |-> 0, count |-> 0]

\* replace(from_inst, from_value, to, ub)
replace(u, from_value, to) ==
    [unit |-> replace_use(u, from_value, to),
     ret |-> use_count(u, from_value) > 0,
     replaced |-> [from |-> from_value, to |-> to, count |-> use_count(u, from_value)]]

Unsimplified(u) == [unit |-> u, ret |-> FALSE, replaced |-> NoReplace]

simplify_mux(u, inst, value) ==
    LET array_value == u.dfg[inst].args[1]
        array_inst == get_value_inst(array_value)
    IN IF array_inst = 0 THEN Unsimplified(u)
       ELSE LET options == u.dfg[array_inst].args
            IN IF options = <<>> THEN Unsimplified(u)
               ELSE IF \A k \in DOMAIN options : options[k] = options[1]
               THEN replace(u, value, options[1])
               ELSE Unsimplified(u)

\* The first match of run_on_inst: drv ... if 0 is removed, drv ... if 1
\* becomes drv ...
simplify_drv_cond(u, inst) ==
    LET data == u.dfg[inst]
        konst == IF data.op = "drv_cond" THEN get_const_int(u, data.args[4])
                 ELSE [some |-> FALSE, imm |-> 0]
    IN IF ~konst.some THEN u
       ELSE IF konst.imm = 1
       THEN remove_inst(build_inst(u, insert_after(inst),
                                   InstData("drv", SubSeq(data.args, 1, 3), <<>>, 0, "void")),
                        inst)
       ELSE remove_inst(u, inst)

run_on_inst(u, inst) ==
    LET u1 == simplify_drv_cond(u, inst)
        value == get_inst_result(u1, inst)
    IN IF value = 0 THEN Unsimplified(u1)
       ELSE LET data == u1.dfg[inst]
            IN IF data.op \in {"and", "or"} /\ data.args[1] = data.args[2]
               THEN replace(u1, value, data.args[1])
               ELSE IF /\ data.op \in {"xor", "umod", "urem", "smod", "srem"}
                       /\ data.args[1] = data.args[2]
               THEN LET ty == value_type(u1, value)
                        zero == u1.nextInst
                    IN replace(build_inst(u1, insert_after(inst), const_zero(ty)),
                               value, zero)
               ELSE IF data.op = "mux" THEN simplify_mux(u1, inst, value)
               ELSE Unsimplified(u1)

(***************************************************************************)
(* The processes under study.  Instructions 1 to 8 are the same in all:    *)
(*   1 = const i1 0      2 = const i1 1      3 = const time                *)
(*   4 = prb -1 (i8)     5 = prb -1 (i8)     6 = prb -3 (i1)               *)
(*   7 = prb -2 ([2 x i8])                   8 = var 7, a pointer to it    *)
(* They are followed by one instruction the pass may simplify (with the    *)
(* producer of its array operand before it, if it is a mux), by a drive    *)
(* that uses its result or by nothing, and by halt.                        *)
(***************************************************************************)
Prelude ==
    << InstData("const_int", <<>>, <<>>, 0, "i1"),
       InstData("const_int", <<>>, <<>>, 1, "i1"),
       InstData("const_time", <<>>, <<>>, 0, "time"),
       InstData("prb", <<-1>>, <<>>, 0, "i8"),
       InstData("prb", <<-1>>, <<>>, 0, "i8"),
       InstData("prb", <<-3>>, <<>>, 0, "i1"),
       InstData("prb", <<-2>>, <<>>, 0, "[2 x i8]"),
       InstData("var", <<7>>, <<>>, 0, "[2 x i8]*") >>

Bytes == {4, 5}

DrvConds == { InstData("drv_cond", <<-1, x, 3, c>>, <<>>, 0, "void") :
                 x \in Bytes, c \in {1, 2, 6} }

Binaries == { InstData(op, <<x, y>>, <<>>, 0, "i8") :
                 op \in {"and", "or", "xor", "umod", "urem", "smod", "srem", "add"},
                 x \in Bytes, y \in Bytes }

\* The instructions that produce the array operand of a mux.
Producers ==
    { InstData("array", <<x, y>>, <<>>, 0, "[2 x i8]") : x \in Bytes, y \in Bytes }
    \cup { InstData("array_uniform", <<x>>, <<>>, 2, "[2 x i8]") : x \in Bytes }
    \cup { InstData("alias", <<7>>, <<>>, 0, "[2 x i8]"),
           InstData("ld", <<8>>, <<>>, 0, "[2 x i8]"),
           InstData("prb", <<-2>>, <<>>, 0, "[2 x i8]"),
           InstData("call", <<4, 4>>, <<>>, 0, "[2 x i8]"),
           InstData("call", <<>>, <<>>, 0, "[2 x i8]") }

Mux(options) == InstData("mux", <<options, 1>>, <<>>, 0, "i8")

\* A drive of the signal -1 with the value v, or nothing.
Users(v) == { <<>>, <<InstData("drv", <<-1, v, 3>>, <<>>, 0, "void")>> }

Bodies ==
    { <<d>> : d \in DrvConds }
    \cup { <<b>> \o us : b \in Binaries, us \in Users(9) }
    \cup { <<Mux(7)>> \o us : us \in Users(9) }
    \cup { <<p, Mux(9)>> \o us : p \in Producers, us \in Users(10) }

RECURSIVE AppendAll(_, _, _)
AppendAll(u, bb, datas) ==
    IF datas = <<>> THEN u
    ELSE AppendAll(build_inst(u, append_to(bb), Head(datas)), bb, Tail(datas))

Process(body) ==
    AppendAll(block(EmptyFunction), 1,
              Prelude \o body \o <<InstData("halt", <<>>, <<>>, 0, "void")>>)

SimpRest == UNCHANGED <<tcm, builder, opcode, driver, writer, printer, tool, linker, regs, ids>>

SimpInit ==
    /\ OthersIdle
    /\ \E body \in Bodies :
          simp = [unit |-> Process(body), insts |-> all_insts(Process(body)), i |-> 0,
                  modified |-> FALSE, before |-> Process(body), inst |-> 0,
                  ret |-> FALSE, replaced |-> NoReplace, returned |-> FALSE]
    /\ printer = <<>> /\ tool = <<>> /\ linker = <<>> /\ regs = <<>> /\ ids = <<>>

\* One round of the loop of run_on_cfg.
RunOnInst ==
    /\ ~simp.returned
    /\ simp.i < Len(simp.insts)
    /\ LET inst == simp.insts[simp.i + 1]
           r == run_on_inst(simp.unit, inst)
       IN simp' = [simp EXCEPT !.unit = r.unit, !.i = @ + 1,
                               !.modified = @ \/ r.ret, !.before = simp.unit,
                               !.inst = inst, !.ret = r.ret, !.replaced = r.replaced]
    /\ SimpRest

\* run_on_cfg returns `modified`.
RunOnCfgReturn ==
    /\ ~simp.returned
    /\ simp.i = Len(simp.insts)
    /\ simp' = [simp EXCEPT !.returned = TRUE]
    /\ SimpRest

SimpNext == RunOnInst \/ RunOnCfgReturn

SimpSpec == SimpInit /\ [][SimpNext]_vars

(***************************************************************************)
(* C27.  Conditional drives.  A drv_cond whose condition is the constant   *)
(* 1 is replaced by a drv of the same signal, value and delay at the same  *)
(* place of the layout; one whose condition is the constant 0 is removed   *)
(* and nothing takes its place; one whose condition is not a constant is   *)
(* left as it is; and run_on_inst returns true whenever it removed or      *)
(* replaced an instruction.                                                *)
(***************************************************************************)
LastWasDrvCond == simp.inst # 0 /\ simp.before.dfg[simp.inst].op = "drv_cond"

DrvCondCondition == get_const_int(simp.before, simp.before.dfg[simp.inst].args[4])

\* The layout of the block with the instruction at place k replaced by `by`.
LayoutWith(u, inst, by) ==
    LET l == u.insts[1]
        k == IndexOf(l, inst)
    IN SubSeq(l, 1, k - 1) \o by \o SubSeq(l, k + 1, Len(l))

ReplacedByDrv ==
    (DrvCondCondition.some /\ DrvCondCondition.imm = 1) =>
        LET drv == simp.before.nextInst
        IN /\ simp.unit.insts[1] = LayoutWith(simp.before, simp.inst, <<drv>>)
           /\ simp.inst \notin DOMAIN simp.unit.dfg
           /\ drv \in DOMAIN simp.unit.dfg
           /\ simp.unit.dfg[drv].op = "drv"
           /\ simp.unit.dfg[drv].args = SubSeq(simp.before.dfg[simp.inst].args, 1, 3)

RemovedIfZero ==
    (DrvCondCondition.some /\ DrvCondCondition.imm = 0) =>
        /\ simp.unit.insts[1] = LayoutWith(simp.before, simp.inst, <<>>)
        /\ DOMAIN simp.unit.dfg = (DOMAIN simp.before.dfg) \ {simp.inst}

UntouchedIfNotConstant == ~DrvCondCondition.some => simp.unit = simp.before

RemovedOrReplaced == simp.inst # 0 /\ simp.inst \notin Range(simp.unit.insts[1])

DrvCondAsClaimed ==
    LastWasDrvCond => ReplacedByDrv /\ RemovedIfZero /\ UntouchedIfNotConstant

C27_DrvCondSimplified ==
    /\ DrvCondAsClaimed
    /\ RemovedOrReplaced => simp.ret

(***************************************************************************)
(* C29.  Type preservation.  Every replace_use of the pass substitutes a   *)
(* value of the type of the replaced result, whatever instruction          *)
(* produces the array operand of a mux.                                    *)
(***************************************************************************)
C29_TypePreserving ==
    simp.replaced.count > 0 =>
        value_type(simp.unit, simp.replaced.to) = value_type(simp.before, simp.replaced.from)

(***************************************************************************)
(* The register instruction (src/src/ir/inst.rs): InstBuilder::reg and     *)
(* the accessors of its operands.  `regs` is a record                      *)
(*   x, data   the arguments of reg: the initial value and the triples     *)
(*             <<data, mode, trigger>>                                     *)
(*   built     whether reg was called                                      *)
(*   inst      the InstData::Reg it built: [args, modes]                   *)
(*   asked     the accessors that were called                              *)
(*   answers   accessor -> what it returned                                *)
(***************************************************************************)
MaxTriggers == 2

RegMode == {"Low", "High", "Rise", "Fall", "Both"}

RegValues == {1, 2}

RegTriples == RegValues \X RegMode \X RegValues

\* The two vectors the loop of reg fills, triple by triple.
RECURSIVE reg_args(_)
reg_args(data) ==
    IF data = <<>> THEN <<>>
    ELSE <<Head(data)[1], Head(data)[3]>> \o reg_args(Tail(data))

reg_modes(data) == [k \in DOMAIN data |-> data[k][2]]

\* InstBuilder::reg(x, data): the InstData::Reg.
reg(x, data) == [args |-> <<x>> \o reg_args(data), modes |-> reg_modes(data)]

data_args(inst) == SubSeq(inst.args, 2, 1 + Len(inst.modes))

trigger_args(inst) == SubSeq(inst.args, 2 + Len(inst.modes), Len(inst.args))

mode_args(inst) == inst.modes

Accessors == {"args", "data_args", "trigger_args", "mode_args"}

accessor(name, inst) ==
    CASE name = "args" -> inst.args
      [] name = "data_args" -> data_args(inst)
      [] name = "trigger_args" -> trigger_args(inst)
      [] OTHER -> mode_args(inst)

RegRest == UNCHANGED <<tcm, builder, opcode, driver, writer, printer, tool, linker, simp, ids>>

RegInit ==
    /\ OthersIdle
    /\ \E x \in RegValues, n \in 0..MaxTriggers : \E data \in [1..n -> RegTriples] :
          regs = [x |-> x, data |-> data, built |-> FALSE,
                  inst |-> [args |-> <<>>, modes |-> <<>>],
                  asked |-> {}, answers |-> [a \in Accessors |-> <<>>]]
    /\ printer = <<>> /\ tool = <<>> /\ linker = <<>> /\ simp = <<>> /\ ids = <<>>

\* InstBuilder::reg.
BuildReg ==
    /\ ~regs.built
    /\ regs' = [regs EXCEPT !.built = TRUE, !.inst = reg(regs.x, regs.data)]
    /\ RegRest

\* One of the accessors is called on the instruction.
AskAccessor ==
    /\ regs.built
    /\ \E name \in Accessors \ regs.asked :
          regs' = [regs EXCEPT !.asked = @ \cup {name},
                               !.answers[name] = accessor(name, regs.inst)]
    /\ RegRest

RegNext == BuildReg \/ AskAccessor

RegSpec == RegInit /\ [][RegNext]_vars

(***************************************************************************)
(* C28.  The accessors invert the builder.  For the instruction built by   *)
(* reg(init, [(data_1, mode_1, trigger_1), ..., (data_n, mode_n,           *)
(* trigger_n)]), args()[0] is init, data_args() is [data_1..data_n],       *)
(* trigger_args() is [trigger_1..trigger_n] and mode_args() is             *)
(* [mode_1..mode_n].                                                       *)
(***************************************************************************)
C28_RegAccessorsInvert ==
    /\ "args" \in regs.asked => regs.answers["args"][1] = regs.x
    /\ "data_args" \in regs.asked =>
          regs.answers["data_args"] = [k \in DOMAIN regs.data |-> regs.data[k][1]]
    /\ "trigger_args" \in regs.asked =>
          regs.answers["trigger_args"] = [k \in DOMAIN regs.data |-> regs.data[k][3]]
    /\ "mode_args" \in regs.asked =>
          regs.answers["mode_args"] = [k \in DOMAIN regs.data |-> regs.data[k][2]]

(***************************************************************************)
(* ValueId::alloc (src/src/value.rs) called from several threads.  The     *)
(* counter NEXT_VALUE_ID is a usize; its width is scaled down to           *)
(* UsizeBits.  `ids` is a record                                           *)
(*   build     "debug" (an overflowing + panics) or "release" (it wraps)   *)
(*   next      NEXT_VALUE_ID                                               *)
(*   calls     how many calls have done their fetch_add (history)          *)
(*   threads   thread -> [pc, old, floor]: pc is "idle", "called" (alloc   *)
(*             entered), "fetched" (fetch_add done, `old` is its result)   *)
(*             or "panicked"; floor is the greatest id a call had          *)
(*             returned when this call started (history)                   *)
(*   returned  the ids returned so far (history)                           *)
(*   last      the last return: [id, floor, fresh], fresh being whether    *)
(*             the id had not been returned before (history)               *)
(***************************************************************************)
UsizeBits == 3
NumThreads == 2
MaxCalls == 9

UsizeRange == 2 ^ UsizeBits

INLINE_VALUE_ID == 0

ATOMIC_USIZE_INIT == 0

ThreadIds == 1..NumThreads

\* AtomicUsize::fetch_add(1): the previous value and the new one, which wraps
\* around on overflow.
fetch_add(n) == [old |-> n, new |-> (n + 1) % UsizeRange]

\* `old + 1` on a usize: the sum, and whether it overflowed.
add_one(old) == [value |-> (old + 1) % UsizeRange, overflow |-> old + 1 >= UsizeRange]

MaxReturned == IF ids.returned = {} THEN 0 ELSE MaxOf(ids.returned)

IdsRest == UNCHANGED <<tcm, builder, opcode, driver, writer, printer, tool, linker, simp, regs>>

IdsInit ==
    /\ OthersIdle
    /\ \E build \in {"debug", "release"} :
          ids = [build |-> build, next |-> ATOMIC_USIZE_INIT, calls |-> 0,
                 threads |-> [t \in ThreadIds |-> [pc |-> "idle", old |-> 0, floor |-> 0]],
                 returned |-> {}, last |-> [id |-> 1, floor |-> 0, fresh |-> TRUE]]
    /\ printer = <<>> /\ tool = <<>> /\ linker = <<>> /\ simp = <<>> /\ regs = <<>>

\* A thread enters alloc.
AllocCall ==
    /\ \E t \in ThreadIds :
          /\ ids.threads[t].pc = "idle"
          /\ ids.calls + Cardinality({ o \in ThreadIds : ids.threads[o].pc = "called" })
                < MaxCalls
          /\ ids' = [ids EXCEPT !.threads[t] =
                        [pc |-> "called", old |-> 0, floor |-> MaxReturned]]
    /\ IdsRest

\* NEXT_VALUE_ID.fetch_add(1, SeqCst), one atomic step.
AllocFetchAdd ==
    /\ \E t \in ThreadIds :
          /\ ids.threads[t].pc = "called"
          /\ ids' = [ids EXCEPT !.next = fetch_add(ids.next).new,
                                 !.calls = @ + 1,
                                 !.threads[t].pc = "fetched",
                                 !.threads[t].old = fetch_add(ids.next).old]
    /\ IdsRest

\* ValueId(old + 1) is returned; an overflow of the sum panics in a debug
\* build.
AllocReturn ==
    /\ \E t \in ThreadIds :
          /\ ids.threads[t].pc = "fetched"
          /\ LET sum == add_one(ids.threads[t].old)
             IN IF sum.overflow /\ ids.build = "debug"
                THEN ids' = [ids EXCEPT !.threads[t].pc = "panicked"]
                ELSE ids' = [ids EXCEPT !.threads[t].pc = "idle",
                                        !.returned = @ \cup {sum.value},
                                        !.last = [id |-> sum.value,
                                                  floor |-> ids.threads[t].floor,
                                                  fresh |-> sum.value \notin ids.returned]]
    /\ IdsRest

IdsNext == AllocCall \/ AllocFetchAdd \/ AllocReturn

IdsSpec == IdsInit /\ [][IdsNext]_vars

(***************************************************************************)
(* C30.  ValueId::alloc hands out unique ids.  Whatever the number of      *)
(* calls and of threads, every call returns an id, the returned ids are    *)
(* pairwise distinct, none is INLINE_VALUE_ID, and the id of a call that   *)
(* started after another call returned is greater than the id of that      *)
(* call.                                                                   *)
(***************************************************************************)
AllocAsClaimed ==
    /\ \A t \in ThreadIds : ids.threads[t].pc # "panicked"
    /\ ids.last.fresh
    /\ ids.last.id # INLINE_VALUE_ID
    /\ ids.last.id > ids.last.floor

\* The same while the counter has not reached the end of its range.
AllocBelowWrap == ids.calls < UsizeRange => AllocAsClaimed

C30_UniqueIds == AllocAsClaimed

====
